---- MODULE Spec2Model ----
(***************************************************************************)
(* Model of scripts/fetch_mempool_space.py: the retrying fetcher, the      *)
(* replacement-tree flattener, the storage writer and the poll loop.       *)
(*                                                                         *)
(* Python values are encoded so that values of different shapes can be     *)
(* compared: None is the empty tuple, a key missing from a dict is Absent, *)
(* a present scalar or dict v is the 1-tuple <<v>>, a JSON list is         *)
(* <<"list", s>> and a JSON object payload is <<"obj", v>>.  Times are     *)
(* integer milliseconds.                                                   *)
(***************************************************************************)
EXTENDS Integers, Sequences, FiniteSets, TLC

VARIABLES
    args,                \* parsed command line (argparse namespace)
    pc,                  \* position of main()
    db_writer,           \* None or the DbWriter's kind
    ts,                  \* observed_at of the current cycle
    idx,                 \* position of the for loop in ENDPOINTS
    cycle,               \* number of cycles started
    now,                 \* the clock (ms)
    attempt,             \* fetch_json_with_retry: attempt
    start,               \* fetch_json_with_retry: start
    fres,                \* fetch_json_with_retry: idle/running/returned/raised/escaped
    data,                \* payload returned by fetch_json_with_retry
    latency_ms,          \* latency returned by fetch_json_with_retry
    exc,                 \* exception leaving fetch_json_with_retry
    trace,               \* history: outcome of every fetch_json call of this invocation
    sleeps,              \* history: every time.sleep(delay) of this invocation
    faultsLeft,          \* environment: upstream faults still allowed in this run
    queue,               \* edges of the replacements payload not yet handled
    api_snapshots,       \* table api_snapshots, in insertion (id) order
    replacement_events,  \* table replacement_events, in insertion (id) order
    jsonl,               \* the line sinks: file name -> lines
    metrics,             \* Metrics instance
    invoked,             \* history: endpoints handed to the fetcher in this cycle
    summaries,           \* history: number of summary lines printed
    node,                \* iter_replacement_edges: argument
    edges,               \* iter_replacement_edges: result
    schema,              \* the tables and indexes of the store, in creation order
    runs,                \* number of runs of the program over the store
    tx_details,          \* table tx_details, in rowid order
    txids,               \* fetch_tx_details main(): txids still to fetch
    lastFetch,           \* history: the last fetch of each txid and its outcome
    completed            \* history: the calls of fetch_json_with_retry that have ended

vars == <<args, pc, db_writer, ts, idx, cycle, now, attempt, start, fres, data,
          latency_ms, exc, trace, sleeps, faultsLeft, queue, api_snapshots,
          replacement_events, jsonl, metrics, invoked, summaries, node, edges,
          schema, runs, tx_details, txids, lastFetch, completed>>

(***************************************************************************)
(* Bounds                                                                  *)
(***************************************************************************)
MaxRetries == 3       \* retries drawn for one call of fetch_json_with_retry
MaxRunRetries == 1    \* --retries drawn for a whole run
MaxCycles == 2        \* cycles a run with interval > 0 is followed for
MaxFaults == 1        \* upstream faults in one run
MaxNodes == 4         \* nodes of a replacement tree

(***************************************************************************)
(* Python values                                                           *)
(***************************************************************************)
None == <<>>
Absent == <<"absent", "key", "missing">>
Some(v) == <<v>>
JList(s) == <<"list", s>>
JObject(v) == <<"obj", v>>

Min(a, b) == IF a <= b THEN a ELSE b

Range(f) == { f[i] : i \in DOMAIN f }

RECURSIVE Pow2(_)
Pow2(n) == IF n <= 0 THEN 1 ELSE 2 * Pow2(n - 1)

RECURSIVE SumSeq(_)
SumSeq(s) == IF s = <<>> THEN 0 ELSE Head(s) + SumSeq(Tail(s))

RECURSIVE Concat(_)
Concat(ss) == IF ss = <<>> THEN <<>> ELSE Head(ss) \o Concat(Tail(ss))

\* dict.get(key, default)
DictGet(d, key, default) == IF d[key] = Absent THEN default ELSE d[key]

\* Python truthiness of a txid-like value: None and "" are falsy
Falsy(v) == v = None \/ v = Some("")

\* {} where a tx dict is expected
EmptyDict == Some([txid |-> Absent, fee |-> Absent, rate |-> Absent, vsize |-> Absent])

\* tx.get(key) of a tx dict
TxGet(tx, key) == DictGet(tx[1], key, None)

(***************************************************************************)
(* iter_replacement_edges                                                  *)
(***************************************************************************)
\* node.get("replaces", []) or []
ReplacesOf(n) ==
    LET r == DictGet(n, "replaces", JList(<<>>))
    IN  IF r = None \/ r = JList(<<>>) THEN <<>> ELSE r[2]

RECURSIVE EdgesFrom_DirectOnly(_, _)

\* variant of the loop body that does not recurse into the replaced node
EdgesFrom_DirectOnly(n, i) ==
    LET repls == ReplacesOf(n)
    IN  IF i > Len(repls) THEN <<>>
        ELSE LET repl == repls[i]
             IN  << [ new_tx   |-> DictGet(n, "tx", EmptyDict),
                      old_tx   |-> DictGet(repl, "tx", EmptyDict),
                      new_time |-> DictGet(n, "time", None),
                      old_time |-> DictGet(repl, "time", None),
                      interval |-> DictGet(repl, "interval", None),
                      full_rbf |-> DictGet(repl, "fullRbf", None),
                      mined    |-> DictGet(repl, "mined", None) ] >>
                 \o EdgesFrom_DirectOnly(n, i + 1)

RECURSIVE iter_replacement_edges(_)
RECURSIVE EdgesFrom(_, _)

\* the body of the for loop, from the i-th element of node's replaces list on
EdgesFrom(n, i) ==
    LET repls == ReplacesOf(n)
    IN  IF i > Len(repls) THEN <<>>
        ELSE LET repl == repls[i]
             IN  << [ new_tx   |-> DictGet(n, "tx", EmptyDict),
                      old_tx   |-> DictGet(repl, "tx", EmptyDict),
                      new_time |-> DictGet(n, "time", None),
                      old_time |-> DictGet(repl, "time", None),
                      interval |-> DictGet(repl, "interval", None),
                      full_rbf |-> DictGet(repl, "fullRbf", None),
                      mined    |-> DictGet(repl, "mined", None) ] >>
                 \o iter_replacement_edges(repl)
                 \o EdgesFrom(n, i + 1)

iter_replacement_edges(n) == EdgesFrom(n, 1)

(***************************************************************************)
(* Replacement trees handed to the flattener                               *)
(***************************************************************************)
FlatTxIds == {"a", "b"}

\* a node of the upstream's replacement tree; the scalar fields follow the txid
MkNode(id, repl) ==
    [ tx       |-> Some([ txid  |-> Some(id),
                          fee   |-> Some(IF id = "a" THEN 500 ELSE 300),
                          rate  |-> Absent,
                          vsize |-> Some(200) ]),
      time     |-> Some(IF id = "a" THEN 1000 ELSE 900),
      replaces |-> repl,
      interval |-> Some(IF id = "a" THEN 50 ELSE 100),
      fullRbf  |-> Some(id = "a"),
      mined    |-> Absent ]

RECURSIVE TreesN(_)
RECURSIVE Forests(_)

\* the trees of exactly n nodes; a leaf has no, a null or an empty replaces list
TreesN(n) ==
    IF n = 1
    THEN { MkNode(id, r) : id \in FlatTxIds, r \in {Absent, None, JList(<<>>)} }
    ELSE { MkNode(id, JList(f)) : id \in FlatTxIds, f \in Forests(n - 1) }

\* the sequences of trees of exactly m nodes in total
Forests(m) ==
    IF m = 0
    THEN { <<>> }
    ELSE UNION { { <<t>> \o f : t \in TreesN(k), f \in Forests(m - k) } : k \in 1..m }

Trees == UNION { TreesN(n) : n \in 1..MaxNodes }

(***************************************************************************)
(* Initial values shared by the specifications                             *)
(***************************************************************************)
DEFAULT_RETRIES == 3
DEFAULT_BACKOFF_BASE == 500
DEFAULT_BACKOFF_MAX == 8000

DefaultArgs ==
    [ interval          |-> 0,
      retries           |-> DEFAULT_RETRIES,
      backoff_base      |-> DEFAULT_BACKOFF_BASE,
      backoff_max       |-> DEFAULT_BACKOFF_MAX,
      db                |-> [scheme |-> "", path |-> ""],
      no_jsonl          |-> FALSE,
      no_mempool_blocks |-> FALSE,
      no_replacements   |-> FALSE ]

OutFiles == {"mempool.jsonl", "fees.jsonl", "fees_precise.jsonl",
             "mempool_blocks.jsonl", "replacements.jsonl"}

\* no call of fetch_json_with_retry has ended: how many returned, raised to
\* main() or ended with an exception that is not caught, and the time the
\* returning calls spent in their last attempt
NoneCompleted == [ok |-> 0, err |-> 0, escaped |-> 0, latency |-> 0]

\* Metrics.__init__
NewMetrics == [total_ok |-> 0, total_err |-> 0, total_latency_ms |-> 0]

InitFetcher ==
    /\ attempt = 0
    /\ start = 0
    /\ data = None
    /\ latency_ms = None
    /\ exc = None
    /\ trace = <<>>
    /\ sleeps = <<>>

InitStorage ==
    /\ queue = <<>>
    /\ api_snapshots = <<>>
    /\ replacement_events = <<>>
    /\ jsonl = [f \in OutFiles |-> <<>>]
    /\ metrics = NewMetrics
    /\ invoked = <<>>
    /\ summaries = 0
    /\ schema = <<>>
    /\ runs = 1
    /\ tx_details = <<>>
    /\ txids = <<>>
    /\ lastFetch = <<>>
    /\ completed = NoneCompleted

InitLoop ==
    /\ db_writer = None
    /\ ts = None
    /\ idx = 1
    /\ cycle = 0
    /\ now = 0

(***************************************************************************)
(* Groups of variables                                                     *)
(***************************************************************************)
flatVars == <<node, edges>>
fetchVars == <<attempt, start, fres, data, latency_ms, exc, trace, sleeps>>
tableVars == <<api_snapshots, replacement_events>>
loopVars == <<db_writer, ts, idx, cycle>>
txVars == <<tx_details, txids, lastFetch>>
storeVars == <<schema, runs, txVars>>

(***************************************************************************)
(* The upstream API                                                        *)
(***************************************************************************)
ENDPOINTS == <<"mempool", "fees", "fees_precise", "mempool_blocks", "replacements">>

\* a tx dict of a replacement tree
Tx(txid, fee) == Some([txid |-> txid, fee |-> fee, rate |-> Absent, vsize |-> Some(200)])

\* a tx dict that carries its fee rate
TxRate(txid, fee, rate) == Some([txid |-> txid, fee |-> fee, rate |-> rate, vsize |-> Some(200)])

\* a node of a replacement tree
Node(tx, time, interval, replaces) ==
    [ tx |-> tx, time |-> time, replaces |-> replaces, interval |-> interval,
      fullRbf |-> Some(FALSE), mined |-> Absent ]

\* [{"tx":{"txid":"new1","fee":500,"vsize":200},"time":1000,"replaces":
\*   [{"tx":{"txid":"old1","fee":300,"vsize":200},"time":900,"interval":100,"fullRbf":false}]}]
ExamplePayload ==
    JList(<< Node(Tx(Some("new1"), Some(500)), Some(1000), Absent,
                  JList(<< Node(Tx(Some("old1"), Some(300)), Some(900), Some(100), Absent) >>)) >>)

\* four trees with malformed nodes among well-formed ones: a root without txid;
\* a root with a child whose txid is "" (with a child of its own), a child whose
\* txid is null and a child without tx; a chain r1 <- m1 <- o6 whose inner edge
\* lies at depth 2; a tree whose only edge lacks the txid on both sides
MalformedPayload ==
    JList(<< Node(Tx(Absent, Some(700)), Some(2000), Absent,
                  JList(<< Node(Tx(Some("o1"), Some(600)), Some(1900), Some(100), Absent) >>)),
             Node(Tx(Some("n2"), Some(900)), Some(3000), Absent,
                  JList(<< Node(Tx(Some("o5"), Some(880)), Some(2995), Some(5), Absent),
                           Node(Tx(Some(""), Some(800)), Some(2900), Some(100),
                                JList(<< Node(Tx(Some("o3"), Some(750)), Some(2800), Some(100), None) >>)),
                           Node(Tx(None, Some(820)), Some(2950), Some(50), Absent),
                           Node(Absent, Some(2960), Some(40), Absent),
                           Node(Tx(Some("o4"), Some(850)), Some(2990), Some(10), JList(<<>>)) >>)),
             Node(TxRate(Some("r1"), Some(1000), Some(5)), Some(5000), Absent,
                  JList(<< [ Node(TxRate(Some("m1"), Some(950), Some(4)), Some(4900), Some(100),
                                  JList(<< [ Node(TxRate(Some("o6"), Some(900), Some(3)), Some(4800),
                                                  Some(200), Absent)
                                             EXCEPT !.mined = Some(TRUE) ] >>))
                             EXCEPT !.fullRbf = Some(TRUE) ] >>)),
             Node(Tx(Absent, Some(400)), Some(6000), Absent,
                  JList(<< Node(Tx(None, Some(380)), Some(5990), Some(10), Absent) >>)) >>)

ReplacementPayloads == { ExamplePayload, MalformedPayload }

\* the well-formed bodies the upstream serves for an endpoint
Bodies(name) == IF name = "replacements" THEN ReplacementPayloads ELSE { JObject(name) }

\* exception classes fetch_json raises: HTTP error status; connection refused,
\* DNS failure or connect timeout; malformed JSON body; socket timeout while
\* waiting for or reading the response
ExceptionClasses == {"HTTPError", "URLError", "JSONDecodeError", "TimeoutError"}

\* duration of one fetch_json call (ms)
CallDurations == {3}

\* str(exc)
StrOf(e) ==
    Some(CASE e.cls = "HTTPError" -> "HTTP Error 503: Service Unavailable"
           [] e.cls = "URLError" -> "<urlopen error [Errno 111] Connection refused>"
           [] e.cls = "JSONDecodeError" -> "Expecting value: line 1 column 1 (char 0)"
           [] OTHER -> "timed out")

\* json.dumps(value): the text of the value; the texts of the replacement
\* lists are abbreviated to the txids of their nodes
Dumps(v) ==
    IF v = None THEN "null"
    ELSE IF v[1] = "obj" THEN "{\"" \o v[2] \o "\": 1}"
    ELSE IF v = ExamplePayload THEN "[new1[old1]]"
    ELSE "[?[o1], n2[o5, \"\"[o3], null, ?, o4], r1[m1[o6]], ?[null]]"

(***************************************************************************)
(* fetch_json_with_retry                                                   *)
(***************************************************************************)
\* except (HTTPError, URLError, json.JSONDecodeError)
Caught(cls) == cls \in {"HTTPError", "URLError", "JSONDecodeError"}

\* variant without the cap
Delay_NoCap(backoff_base, backoff_max, n) == backoff_base * Pow2(n - 1)

\* min(backoff_base * (2 ** (attempt - 1)), backoff_max)
Delay(backoff_base, backoff_max, n) == Min(backoff_base * Pow2(n - 1), backoff_max)

\* what one iteration of the while loop of fetch_json_with_retry leaves alone
FetchFrame ==
    UNCHANGED <<args, pc, loopVars, queue, tableVars, jsonl, metrics, invoked,
                summaries, flatVars, storeVars>>

\* variant that starts the timer once, before the first attempt
FetchReturn_TimerNotRestarted ==
    /\ fres = "running"
    /\ \E dur \in CallDurations, null \in BOOLEAN :
        \E body \in (IF null THEN {None} ELSE Bodies(ENDPOINTS[idx])) :
            /\ null => faultsLeft > 0
            /\ faultsLeft' = IF null THEN faultsLeft - 1 ELSE faultsLeft
            /\ start' = IF attempt = 0 THEN now ELSE start
            /\ now' = now + dur
            /\ data' = body
            /\ latency_ms' = Some(now' - start')
            /\ trace' = Append(trace, [ok |-> TRUE, body |-> body, cls |-> "", dur |-> dur])
            /\ completed' = [completed EXCEPT !.ok = @ + 1, !.latency = @ + dur]
            /\ fres' = "returned"
    /\ UNCHANGED <<attempt, exc, sleeps>>
    /\ FetchFrame

\* fetch_json returns a body; the latency is taken from the start of this attempt
FetchReturn ==
    /\ fres = "running"
    /\ \E dur \in CallDurations, null \in BOOLEAN :
        \E body \in (IF null THEN {None} ELSE Bodies(ENDPOINTS[idx])) :
            /\ null => faultsLeft > 0
            /\ faultsLeft' = IF null THEN faultsLeft - 1 ELSE faultsLeft
            /\ start' = now
            /\ now' = now + dur
            /\ data' = body
            /\ latency_ms' = Some(now' - start')
            /\ trace' = Append(trace, [ok |-> TRUE, body |-> body, cls |-> "", dur |-> dur])
            /\ completed' = [completed EXCEPT !.ok = @ + 1, !.latency = @ + dur]
            /\ fres' = "returned"
    /\ UNCHANGED <<attempt, exc, sleeps>>
    /\ FetchFrame

\* variant that compares the budget before counting the failed attempt
FetchRetry_OffByOne ==
    /\ fres = "running"
    /\ faultsLeft > 0
    /\ attempt <= args.retries
    /\ \E dur \in CallDurations, cls \in ExceptionClasses :
        LET delay == Delay(args.backoff_base, args.backoff_max, attempt + 1)
        IN  /\ Caught(cls)
            /\ start' = now
            /\ attempt' = attempt + 1
            /\ sleeps' = Append(sleeps, delay)
            /\ now' = now + dur + delay
            /\ trace' = Append(trace, [ok |-> FALSE, body |-> None, cls |-> cls,
                                  dur |-> dur])
    /\ faultsLeft' = faultsLeft - 1
    /\ UNCHANGED <<fres, data, latency_ms, exc, completed>>
    /\ FetchFrame

\* fetch_json raises a caught exception and the budget allows a retry
FetchRetry ==
    /\ fres = "running"
    /\ faultsLeft > 0
    /\ attempt + 1 <= args.retries
    /\ \E dur \in CallDurations, cls \in ExceptionClasses :
        LET delay == Delay(args.backoff_base, args.backoff_max, attempt + 1)
        IN  /\ Caught(cls)
            /\ start' = now
            /\ attempt' = attempt + 1
            /\ sleeps' = Append(sleeps, delay)
            /\ now' = now + dur + delay
            /\ trace' = Append(trace, [ok |-> FALSE, body |-> None, cls |-> cls,
                                  dur |-> dur])
    /\ faultsLeft' = faultsLeft - 1
    /\ UNCHANGED <<fres, data, latency_ms, exc, completed>>
    /\ FetchFrame

\* fetch_json raises a caught exception and the budget is used up: raise exc
FetchRaise ==
    /\ fres = "running"
    /\ faultsLeft > 0
    /\ attempt + 1 > args.retries
    /\ \E dur \in CallDurations, cls \in ExceptionClasses :
        /\ Caught(cls)
        /\ start' = now
        /\ attempt' = attempt + 1
        /\ now' = now + dur
        /\ trace' = Append(trace, [ok |-> FALSE, body |-> None, cls |-> cls,
                                  dur |-> dur])
        /\ exc' = [cls |-> cls, call |-> Len(trace) + 1]
    /\ fres' = "raised"
    /\ completed' = [completed EXCEPT !.err = @ + 1]
    /\ faultsLeft' = faultsLeft - 1
    /\ UNCHANGED <<data, latency_ms, sleeps>>
    /\ FetchFrame

\* fetch_json raises an exception the except clause does not name
FetchEscape ==
    /\ fres = "running"
    /\ faultsLeft > 0
    /\ \E dur \in CallDurations, cls \in ExceptionClasses :
        /\ ~Caught(cls)
        /\ start' = now
        /\ now' = now + dur
        /\ trace' = Append(trace, [ok |-> FALSE, body |-> None, cls |-> cls,
                                  dur |-> dur])
        /\ exc' = [cls |-> cls, call |-> Len(trace) + 1]
    /\ fres' = "escaped"
    /\ completed' = [completed EXCEPT !.escaped = @ + 1]
    /\ faultsLeft' = faultsLeft - 1
    /\ UNCHANGED <<attempt, data, latency_ms, sleeps>>
    /\ FetchFrame

(***************************************************************************)
(* Specification of one call of fetch_json_with_retry                      *)
(***************************************************************************)
BackoffBases == {0, 500, 1000}
BackoffMaxes == {0, 800, 8000}

InitRetry ==
    /\ \E r \in 0..MaxRetries, b \in BackoffBases, m \in BackoffMaxes :
          args = [DefaultArgs EXCEPT !.retries = r, !.backoff_base = b, !.backoff_max = m]
    /\ pc = "fetch"
    /\ fres = "running"
    /\ faultsLeft = MaxRetries + 2
    /\ idx \in 1..Len(ENDPOINTS)
    /\ db_writer = None /\ ts = None /\ cycle = 0 /\ now = 0
    /\ InitFetcher /\ InitStorage
    /\ node = None /\ edges = <<>>

NextRetry ==
    \/ FetchReturn
    \/ FetchRetry
    \/ FetchRaise
    \/ FetchEscape

SpecRetry == InitRetry /\ [][NextRetry]_vars

(***************************************************************************)
(* DbWriter                                                                *)
(***************************************************************************)
\* a connection string, as urlparse splits it
EmptyUrl == [scheme |-> "", path |-> ""]
DbUrls == { EmptyUrl,
            [scheme |-> "sqlite", path |-> "/data/mempool.db"],
            [scheme |-> "ftp", path |-> "/data/mempool.db"] }

\* the connection strings with which a run may be started
StoreUrls == DbUrls \cup { [scheme |-> "", path |-> "data/mempool.db"],
                           [scheme |-> "postgres", path |-> "/mempool"],
                           [scheme |-> "postgresql", path |-> "/mempool"] }

\* variant that falls back to the embedded engine for an unknown scheme
KindOf_FallbackSqlite(db_url) ==
    IF db_url.scheme \in {"postgres", "postgresql"} THEN "postgres" ELSE "sqlite"

\* DbWriter.__init__: the kind selected by the scheme of the connection string
KindOf(db_url) ==
    IF db_url.scheme \in {"postgres", "postgresql"} THEN "postgres"
    ELSE IF db_url.scheme \in {"sqlite", ""} THEN "sqlite"
    ELSE "unsupported"

\* CREATE TABLE name (columns)
TableDef(name, columns) == [kind |-> "table", name |-> name, on |-> "", columns |-> columns]

\* CREATE INDEX name ON table(columns)
IndexDef(name, table, columns) == [kind |-> "index", name |-> name, on |-> table, columns |-> columns]

\* variant of the statement without IF NOT EXISTS
CreateAlways(s, obj) == Append(s, obj)

\* CREATE ... IF NOT EXISTS: nothing happens when an object of the name exists
CreateIfNotExists(s, obj) ==
    IF \E k \in 1..Len(s) : s[k].name = obj.name THEN s ELSE Append(s, obj)

\* cursor.execute of a sequence of CREATE ... IF NOT EXISTS statements
RECURSIVE ExecuteAll(_, _)
ExecuteAll(s, objs) ==
    IF objs = <<>> THEN s ELSE ExecuteAll(CreateIfNotExists(s, Head(objs)), Tail(objs))

\* the columns of the two tables, the same in both dialects
SnapshotColumns ==
    <<"id", "observed_at", "endpoint", "success", "latency_ms", "error", "data_json">>
EdgeColumns ==
    <<"id", "observed_at", "event_time", "old_txid", "new_txid", "old_fee_sat",
      "old_feerate", "old_vsize", "new_fee_sat", "new_feerate", "new_vsize",
      "interval_seconds", "full_rbf", "mined">>

\* DbWriter._ensure_schema: the store after the statements of the kind's branch
_ensure_schema(kind, s) ==
    IF kind = "sqlite"
    THEN ExecuteAll(s,
           << TableDef("api_snapshots", SnapshotColumns),
              TableDef("replacement_events", EdgeColumns),
              IndexDef("idx_api_snapshots_time", "api_snapshots", <<"observed_at">>),
              IndexDef("idx_api_snapshots_endpoint", "api_snapshots", <<"endpoint">>),
              IndexDef("idx_replacement_events_time", "replacement_events", <<"observed_at">>),
              IndexDef("idx_replacement_events_txids", "replacement_events",
                       <<"old_txid", "new_txid">>) >>)
    ELSE ExecuteAll(s,
           << TableDef("api_snapshots", SnapshotColumns),
              TableDef("replacement_events", EdgeColumns) >>)

\* int(b) if b is not None else None
IntOrNone(b) == IF b = None THEN None ELSE Some(IF b[1] THEN 1 ELSE 0)

\* DbWriter.write_snapshot: the table after the insert and commit
write_snapshot(observed_at, endpoint, success, latency, error, d) ==
    Append(api_snapshots,
           [ observed_at |-> observed_at,
             endpoint    |-> endpoint,
             success     |-> IF success THEN 1 ELSE 0,
             latency_ms  |-> latency,
             error       |-> error,
             data_json   |-> IF d # None THEN Some(Dumps(d)) ELSE None ])

\* variant that stores a pair of txids once: a pair already there is skipped
write_replacement_event_Dedup(observed_at, edge) ==
    IF \E k \in 1..Len(replacement_events) :
          /\ replacement_events[k].old_txid = TxGet(edge.old_tx, "txid")
          /\ replacement_events[k].new_txid = TxGet(edge.new_tx, "txid")
    THEN replacement_events
    ELSE Append(replacement_events,
           [ observed_at      |-> observed_at,
             event_time       |-> edge.new_time,
             old_txid         |-> TxGet(edge.old_tx, "txid"),
             new_txid         |-> TxGet(edge.new_tx, "txid"),
             old_fee_sat      |-> TxGet(edge.old_tx, "fee"),
             old_feerate      |-> TxGet(edge.old_tx, "rate"),
             old_vsize        |-> TxGet(edge.old_tx, "vsize"),
             new_fee_sat      |-> TxGet(edge.new_tx, "fee"),
             new_feerate      |-> TxGet(edge.new_tx, "rate"),
             new_vsize        |-> TxGet(edge.new_tx, "vsize"),
             interval_seconds |-> edge.interval,
             full_rbf         |-> IntOrNone(edge.full_rbf),
             mined            |-> IntOrNone(edge.mined) ])

\* variant that stores the time of the replaced transaction as event_time
write_replacement_event_OldTime(observed_at, edge) ==
    Append(replacement_events,
           [ observed_at      |-> observed_at,
             event_time       |-> edge.old_time,
             old_txid         |-> TxGet(edge.old_tx, "txid"),
             new_txid         |-> TxGet(edge.new_tx, "txid"),
             old_fee_sat      |-> TxGet(edge.old_tx, "fee"),
             old_feerate      |-> TxGet(edge.old_tx, "rate"),
             old_vsize        |-> TxGet(edge.old_tx, "vsize"),
             new_fee_sat      |-> TxGet(edge.new_tx, "fee"),
             new_feerate      |-> TxGet(edge.new_tx, "rate"),
             new_vsize        |-> TxGet(edge.new_tx, "vsize"),
             interval_seconds |-> edge.interval,
             full_rbf         |-> IntOrNone(edge.full_rbf),
             mined            |-> IntOrNone(edge.mined) ])

\* variant that takes the fee columns of both sides from the new transaction
write_replacement_event_NewFees(observed_at, edge) ==
    Append(replacement_events,
           [ observed_at      |-> observed_at,
             event_time       |-> edge.new_time,
             old_txid         |-> TxGet(edge.old_tx, "txid"),
             new_txid         |-> TxGet(edge.new_tx, "txid"),
             old_fee_sat      |-> TxGet(edge.new_tx, "fee"),
             old_feerate      |-> TxGet(edge.new_tx, "rate"),
             old_vsize        |-> TxGet(edge.new_tx, "vsize"),
             new_fee_sat      |-> TxGet(edge.new_tx, "fee"),
             new_feerate      |-> TxGet(edge.new_tx, "rate"),
             new_vsize        |-> TxGet(edge.new_tx, "vsize"),
             interval_seconds |-> edge.interval,
             full_rbf         |-> IntOrNone(edge.full_rbf),
             mined            |-> IntOrNone(edge.mined) ])

\* DbWriter.write_replacement_event, with the arguments main() passes for an edge
write_replacement_event(observed_at, edge) ==
    Append(replacement_events,
           [ observed_at      |-> observed_at,
             event_time       |-> edge.new_time,
             old_txid         |-> TxGet(edge.old_tx, "txid"),
             new_txid         |-> TxGet(edge.new_tx, "txid"),
             old_fee_sat      |-> TxGet(edge.old_tx, "fee"),
             old_feerate      |-> TxGet(edge.old_tx, "rate"),
             old_vsize        |-> TxGet(edge.old_tx, "vsize"),
             new_fee_sat      |-> TxGet(edge.new_tx, "fee"),
             new_feerate      |-> TxGet(edge.new_tx, "rate"),
             new_vsize        |-> TxGet(edge.new_tx, "vsize"),
             interval_seconds |-> edge.interval,
             full_rbf         |-> IntOrNone(edge.full_rbf),
             mined            |-> IntOrNone(edge.mined) ])

\* variant that counts the outcome and forgets the latency
Record_NoLatency(m, ok, latency) ==
    IF ok THEN [m EXCEPT !.total_ok = @ + 1] ELSE [m EXCEPT !.total_err = @ + 1]

\* Metrics.record
Record(m, ok, latency) ==
    IF ok
    THEN [m EXCEPT !.total_ok = @ + 1,
                   !.total_latency_ms = IF latency # None THEN @ + latency[1] ELSE @]
    ELSE [m EXCEPT !.total_err = @ + 1]

(***************************************************************************)
(* main                                                                    *)
(***************************************************************************)
\* utc_now_iso
utc_now_iso(t) == <<"iso", t>>

\* variant that forgets the --no-replacements toggle
Disabled_OnlyBlocks(name) == name = "mempool_blocks" /\ args.no_mempool_blocks

\* the --no-mempool-blocks and --no-replacements toggles
Disabled(name) ==
    \/ name = "mempool_blocks" /\ args.no_mempool_blocks
    \/ name = "replacements" /\ args.no_replacements

\* variant whose chain lacks the fees_precise branch
OutFile_NoPrecise(name) ==
    IF name = "mempool" THEN "mempool.jsonl"
    ELSE IF name = "fees" THEN "fees.jsonl"
    ELSE IF name = "replacements" THEN "replacements.jsonl"
    ELSE "mempool_blocks.jsonl"

\* the sink file the if/elif chain selects
OutFile(name) ==
    IF name = "mempool" THEN "mempool.jsonl"
    ELSE IF name = "fees" THEN "fees.jsonl"
    ELSE IF name = "fees_precise" THEN "fees_precise.jsonl"
    ELSE IF name = "replacements" THEN "replacements.jsonl"
    ELSE "mempool_blocks.jsonl"

\* the edges of every top-level node of a replacements payload, in list order
EdgesOfPayload(d) == Concat([i \in 1..Len(d[2]) |-> iter_replacement_edges(d[2][i])])

\* variant that tests the new side only
Invalid_NewOnly(edge) == Falsy(TxGet(edge.new_tx, "txid"))

\* variant that drops an edge only when both sides lack the txid
Invalid_BothOnly(edge) == Falsy(TxGet(edge.new_tx, "txid")) /\ Falsy(TxGet(edge.old_tx, "txid"))

\* not new_txid or not old_txid
Invalid(edge) == Falsy(TxGet(edge.new_tx, "txid")) \/ Falsy(TxGet(edge.old_tx, "txid"))

\* fetch_json_with_retry is left: its locals and the history of the call are gone
Returned ==
    /\ attempt' = 0
    /\ start' = 0
    /\ trace' = <<>>
    /\ sleeps' = <<>>

\* db_writer = DbWriter(args.db) if args.db else None
Startup ==
    /\ pc = "startup"
    /\ args.db # EmptyUrl => KindOf(args.db) # "unsupported"
    /\ db_writer' = IF args.db # EmptyUrl THEN Some(KindOf(args.db)) ELSE None
    /\ schema' = IF args.db # EmptyUrl THEN _ensure_schema(KindOf(args.db), schema) ELSE schema
    /\ pc' = "while"
    /\ UNCHANGED <<args, ts, idx, cycle, now, fetchVars, faultsLeft, queue, tableVars,
                   jsonl, metrics, invoked, summaries, completed, flatVars, runs, txVars>>

\* DbWriter.__init__ raises ValueError for an unsupported scheme
StartupFails ==
    /\ pc = "startup"
    /\ args.db # EmptyUrl
    /\ KindOf(args.db) = "unsupported"
    /\ exc' = [cls |-> "ValueError", call |-> 0]
    /\ pc' = "crashed"
    /\ UNCHANGED <<args, loopVars, now, attempt, start, fres, data, latency_ms, trace,
                   sleeps, faultsLeft, queue, tableVars, jsonl, metrics, invoked,
                   summaries, completed, flatVars, storeVars>>

\* top of while True: ts = utc_now_iso()
CycleStart ==
    /\ pc = "while"
    /\ cycle < MaxCycles
    /\ ts' = utc_now_iso(now)
    /\ cycle' = cycle + 1
    /\ idx' = 1
    /\ invoked' = <<>>
    /\ pc' = "for"
    /\ UNCHANGED <<args, db_writer, now, fetchVars, faultsLeft, queue, tableVars, jsonl,
                   metrics, summaries, completed, flatVars, storeVars>>

\* continue: the endpoint is switched off
ForSkip ==
    /\ pc = "for"
    /\ idx <= Len(ENDPOINTS)
    /\ Disabled(ENDPOINTS[idx])
    /\ idx' = idx + 1
    /\ UNCHANGED <<args, pc, db_writer, ts, cycle, now, fetchVars, faultsLeft, queue,
                   tableVars, jsonl, metrics, invoked, summaries, completed, flatVars, storeVars>>

\* call fetch_json_with_retry for the endpoint
ForFetch ==
    /\ pc = "for"
    /\ idx <= Len(ENDPOINTS)
    /\ ~Disabled(ENDPOINTS[idx])
    /\ attempt' = 0
    /\ fres' = "running"
    /\ invoked' = Append(invoked, ENDPOINTS[idx])
    /\ pc' = "fetch"
    /\ UNCHANGED <<args, loopVars, now, start, data, latency_ms, exc, trace, sleeps,
                   faultsLeft, queue, tableVars, jsonl, metrics, summaries, completed, flatVars, storeVars>>

\* the for loop is exhausted
ForEnd ==
    /\ pc = "for"
    /\ idx > Len(ENDPOINTS)
    /\ pc' = "summary"
    /\ UNCHANGED <<args, loopVars, now, fetchVars, faultsLeft, queue, tableVars, jsonl,
                   metrics, invoked, summaries, completed, flatVars, storeVars>>

\* an exception no except clause of main() names ends the process
Uncaught ==
    /\ pc = "fetch"
    /\ fres = "escaped"
    /\ fres' = "idle"
    /\ pc' = "crashed"
    /\ Returned
    /\ UNCHANGED <<args, loopVars, now, data, latency_ms, exc, faultsLeft, queue,
                   tableVars, jsonl, metrics, invoked, summaries, completed, flatVars, storeVars>>

\* variant that stamps the line with the time of the append
AppendJsonl_FetchTime ==
    /\ pc = "fetch"
    /\ fres = "returned"
    /\ fres' = "idle"
    /\ jsonl' = IF args.no_jsonl THEN jsonl
                ELSE [jsonl EXCEPT ![OutFile(ENDPOINTS[idx])] =
                         Append(@, [observed_at |-> utc_now_iso(now), data |-> Dumps(data)])]
    /\ pc' = "snapshot"
    /\ Returned
    /\ UNCHANGED <<args, loopVars, now, data, latency_ms, exc, faultsLeft, queue,
                   tableVars, metrics, invoked, summaries, completed, flatVars, storeVars>>

\* if not args.no_jsonl: append_jsonl(out_<name>, {"observed_at": ts, "data": data})
AppendJsonl ==
    /\ pc = "fetch"
    /\ fres = "returned"
    /\ fres' = "idle"
    /\ jsonl' = IF args.no_jsonl THEN jsonl
                ELSE [jsonl EXCEPT ![OutFile(ENDPOINTS[idx])] =
                         Append(@, [observed_at |-> ts, data |-> Dumps(data)])]
    /\ pc' = "snapshot"
    /\ Returned
    /\ UNCHANGED <<args, loopVars, now, data, latency_ms, exc, faultsLeft, queue,
                   tableVars, metrics, invoked, summaries, completed, flatVars, storeVars>>

\* variant that enters the loop over the payload before the snapshot is written
WriteSnapshot_EdgesFirst ==
    /\ pc = "snapshot"
    /\ ~(db_writer # None /\ ENDPOINTS[idx] = "replacements" /\ data = None)
    /\ api_snapshots' = IF db_writer # None /\ ENDPOINTS[idx] # "replacements"
                        THEN write_snapshot(ts, ENDPOINTS[idx], TRUE, latency_ms, None, data)
                        ELSE api_snapshots
    /\ queue' = IF db_writer # None /\ ENDPOINTS[idx] = "replacements"
                THEN EdgesOfPayload(data)
                ELSE <<>>
    /\ pc' = IF queue' # <<>> THEN "edges" ELSE "record"
    /\ UNCHANGED <<args, loopVars, now, fetchVars, faultsLeft, replacement_events, jsonl,
                   metrics, invoked, summaries, completed, flatVars, storeVars>>

\* if db_writer: write_snapshot(ts, name, True, latency_ms, None, data), then the
\* for loop over the payload of the replacements endpoint is entered
WriteSnapshot ==
    /\ pc = "snapshot"
    /\ ~(db_writer # None /\ ENDPOINTS[idx] = "replacements" /\ data = None)
    /\ api_snapshots' = IF db_writer # None
                        THEN write_snapshot(ts, ENDPOINTS[idx], TRUE, latency_ms, None, data)
                        ELSE api_snapshots
    /\ queue' = IF db_writer # None /\ ENDPOINTS[idx] = "replacements"
                THEN EdgesOfPayload(data)
                ELSE <<>>
    /\ pc' = IF queue' # <<>> THEN "edges" ELSE "record"
    /\ UNCHANGED <<args, loopVars, now, fetchVars, faultsLeft, replacement_events, jsonl,
                   metrics, invoked, summaries, completed, flatVars, storeVars>>

\* the snapshot is written, then "for item in data" raises TypeError on None
WriteSnapshotThenTypeError ==
    /\ pc = "snapshot"
    /\ db_writer # None /\ ENDPOINTS[idx] = "replacements" /\ data = None
    /\ api_snapshots' = write_snapshot(ts, ENDPOINTS[idx], TRUE, latency_ms, None, data)
    /\ exc' = [cls |-> "TypeError", call |-> 0]
    /\ pc' = "crashed"
    /\ UNCHANGED <<args, loopVars, now, attempt, start, fres, data, latency_ms, trace,
                   sleeps, faultsLeft, queue, replacement_events, jsonl, metrics,
                   invoked, summaries, completed, flatVars, storeVars>>

\* if not new_txid or not old_txid: continue
DropEdge ==
    /\ pc = "edges"
    /\ Invalid(Head(queue))
    /\ queue' = Tail(queue)
    /\ pc' = IF queue' # <<>> THEN "edges" ELSE "record"
    /\ UNCHANGED <<args, loopVars, now, fetchVars, faultsLeft, tableVars, jsonl, metrics,
                   invoked, summaries, completed, flatVars, storeVars>>

\* db_writer.write_replacement_event(...)
WriteEdge ==
    /\ pc = "edges"
    /\ ~Invalid(Head(queue))
    /\ replacement_events' = write_replacement_event(ts, Head(queue))
    /\ queue' = Tail(queue)
    /\ pc' = IF queue' # <<>> THEN "edges" ELSE "record"
    /\ UNCHANGED <<args, loopVars, now, fetchVars, faultsLeft, api_snapshots, jsonl,
                   metrics, invoked, summaries, completed, flatVars, storeVars>>

\* metrics.record(True, latency_ms); next endpoint.  data and latency_ms are
\* not read again before the next fetch rebinds them: the payload is dropped
RecordSuccess ==
    /\ pc = "record"
    /\ metrics' = Record(metrics, TRUE, latency_ms)
    /\ data' = None
    /\ latency_ms' = None
    /\ idx' = idx + 1
    /\ pc' = "for"
    /\ UNCHANGED <<args, db_writer, ts, cycle, now, attempt, start, fres, exc, trace,
                   sleeps, faultsLeft, queue, tableVars, jsonl, invoked, summaries, completed,
                   flatVars, storeVars>>

\* except (HTTPError, URLError, json.JSONDecodeError): failing snapshot,
\* metrics.record(False, None), log; next endpoint
HandleFetchError ==
    /\ pc = "fetch"
    /\ fres = "raised"
    /\ fres' = "idle"
    /\ api_snapshots' = IF db_writer # None
                        THEN write_snapshot(ts, ENDPOINTS[idx], FALSE, None, StrOf(exc), None)
                        ELSE api_snapshots
    /\ metrics' = Record(metrics, FALSE, None)
    /\ exc' = None
    /\ idx' = idx + 1
    /\ pc' = "for"
    /\ Returned
    /\ UNCHANGED <<args, db_writer, ts, cycle, now, data, latency_ms, faultsLeft, queue,
                   replacement_events, jsonl, invoked, summaries, completed, flatVars, storeVars>>

\* print the summary; interval <= 0: break, return 0
SummaryAndExit ==
    /\ pc = "summary"
    /\ args.interval <= 0
    /\ summaries' = summaries + 1
    /\ pc' = "done"
    /\ UNCHANGED <<args, loopVars, now, fetchVars, faultsLeft, queue, tableVars, jsonl,
                   metrics, invoked, completed, flatVars, storeVars>>

\* print the summary; time.sleep(args.interval)
SummaryAndSleep ==
    /\ pc = "summary"
    /\ args.interval > 0
    /\ summaries' = summaries + 1
    /\ now' = now + args.interval * 1000
    /\ pc' = "while"
    /\ UNCHANGED <<args, loopVars, fetchVars, faultsLeft, queue, tableVars, jsonl,
                   metrics, invoked, completed, flatVars, storeVars>>

Intervals == {0, 60}

Init ==
    /\ \E i \in Intervals, r \in 0..MaxRunRetries, u \in DbUrls,
          nj \in BOOLEAN, nb \in BOOLEAN, nr \in BOOLEAN :
          args = [DefaultArgs EXCEPT !.interval = i, !.retries = r, !.db = u,
                                     !.no_jsonl = nj, !.no_mempool_blocks = nb,
                                     !.no_replacements = nr]
    /\ pc = "startup"
    /\ fres = "idle"
    /\ faultsLeft = MaxFaults
    /\ InitLoop /\ InitFetcher /\ InitStorage
    /\ node = None /\ edges = <<>>

Next ==
    \/ Startup
    \/ StartupFails
    \/ CycleStart
    \/ ForSkip
    \/ ForFetch
    \/ ForEnd
    \/ FetchReturn
    \/ FetchRetry
    \/ FetchRaise
    \/ FetchEscape
    \/ Uncaught
    \/ AppendJsonl
    \/ WriteSnapshot
    \/ WriteSnapshotThenTypeError
    \/ DropEdge
    \/ WriteEdge
    \/ RecordSuccess
    \/ HandleFetchError
    \/ SummaryAndExit
    \/ SummaryAndSleep

Spec == Init /\ [][Next]_vars

(***************************************************************************)
(* Runs with every kind of connection string, over a new store or one that *)
(* an earlier run has left, and with storage faults                        *)
(***************************************************************************)
\* DbWriter.__init__ fails to open the store: psycopg2 is missing or the
\* connection is refused, or the sqlite file cannot be opened
ConnectFails ==
    /\ pc = "startup"
    /\ args.db # EmptyUrl
    /\ KindOf(args.db) # "unsupported"
    /\ faultsLeft > 0
    /\ faultsLeft' = faultsLeft - 1
    /\ exc' = [cls |-> IF KindOf(args.db) = "postgres" THEN "RuntimeError"
                        ELSE "OperationalError",
                call |-> 0]
    /\ pc' = "crashed"
    /\ UNCHANGED <<args, loopVars, now, attempt, start, fres, data, latency_ms, trace,
                   sleeps, queue, tableVars, jsonl, metrics, invoked, summaries, completed,
                   flatVars, storeVars>>

\* the store has a statement to execute and commit at this point of main()
AboutToWrite ==
    /\ db_writer # None
    /\ \/ pc = "snapshot"
       \/ pc = "edges" /\ ~Invalid(Head(queue))
       \/ pc = "fetch" /\ fres = "raised"

\* variant for a writer that commits once per cycle: the rows of the cycle are
\* rolled back with the failing statement
WriteFails_CycleRollback ==
    /\ AboutToWrite
    /\ faultsLeft > 0
    /\ faultsLeft' = faultsLeft - 1
    /\ api_snapshots' = SelectSeq(api_snapshots, LAMBDA r : r.observed_at # ts)
    /\ replacement_events' = SelectSeq(replacement_events, LAMBDA r : r.observed_at # ts)
    /\ exc' = [cls |-> "OperationalError", call |-> 0]
    /\ fres' = "idle"
    /\ pc' = "crashed"
    /\ Returned
    /\ UNCHANGED <<args, loopVars, now, data, latency_ms, queue, jsonl, metrics,
                   invoked, summaries, completed, flatVars, storeVars>>

\* cursor.execute or conn.commit of a write raises: no except clause of main()
\* names the error, the statement is not committed and the process ends
WriteFails ==
    /\ AboutToWrite
    /\ faultsLeft > 0
    /\ faultsLeft' = faultsLeft - 1
    /\ exc' = [cls |-> "OperationalError", call |-> 0]
    /\ fres' = "idle"
    /\ pc' = "crashed"
    /\ Returned
    /\ UNCHANGED <<args, loopVars, now, data, latency_ms, queue, tableVars, jsonl,
                   metrics, invoked, summaries, completed, flatVars, storeVars>>

\* a store an earlier run has left: its schema and the snapshot the run committed
EarlierSnapshots ==
    << [ observed_at |-> utc_now_iso(0 - 60000),
         endpoint    |-> "mempool",
         success     |-> 1,
         latency_ms  |-> Some(3),
         error       |-> None,
         data_json   |-> Some(Dumps(JObject("mempool"))) ] >>

\* the two ways the program is run: once, without retries, and as a poller
\* with retries; <<interval, retries>>
RunShapes == { <<0, 0>>, <<60, MaxRunRetries>> }

InitStore ==
    /\ \E c \in RunShapes, u \in StoreUrls :
          args = [DefaultArgs EXCEPT !.interval = c[1], !.retries = c[2], !.db = u,
                                     !.no_mempool_blocks = TRUE]
    /\ \/ schema = <<>> /\ api_snapshots = <<>>
       \/ /\ args.db # EmptyUrl /\ KindOf(args.db) # "unsupported"
          /\ schema = _ensure_schema(KindOf(args.db), <<>>)
          /\ api_snapshots = EarlierSnapshots
    /\ pc = "startup"
    /\ fres = "idle"
    /\ faultsLeft = MaxFaults
    /\ InitLoop /\ InitFetcher
    /\ queue = <<>>
    /\ replacement_events = <<>>
    /\ jsonl = [f \in OutFiles |-> <<>>]
    /\ metrics = NewMetrics
    /\ invoked = <<>>
    /\ summaries = 0
    /\ runs = 1
    /\ tx_details = <<>> /\ txids = <<>> /\ lastFetch = <<>>
    /\ completed = NoneCompleted
    /\ node = None /\ edges = <<>>

NextStore ==
    \/ Next
    \/ ConnectFails
    \/ WriteFails

SpecStore == InitStore /\ [][NextStore]_vars

(***************************************************************************)
(* scripts/fetch_tx_details.py: runs of main() over a source store of      *)
(* replacement_events and an output store with the table tx_details        *)
(***************************************************************************)
MaxRuns == 2          \* runs of fetch_tx_details over the same stores

\* the txids of the source store, in the order the UNION of the query yields
TxidOrder == <<"ta", "tb", "tc">>

\* a row of replacement_events as the poller stores it
EventRow(t, old, new) ==
    [ observed_at      |-> utc_now_iso(t),
      event_time       |-> Some(1000),
      old_txid         |-> Some(old),
      new_txid         |-> Some(new),
      old_fee_sat      |-> Some(300),
      old_feerate      |-> None,
      old_vsize        |-> Some(200),
      new_fee_sat      |-> Some(500),
      new_feerate      |-> None,
      new_vsize        |-> Some(200),
      interval_seconds |-> Some(100),
      full_rbf         |-> Some(0),
      mined            |-> None ]

\* the contents of the source store
SourceTables ==
    { <<>>,
      << EventRow(0, "ta", "tb") >>,
      << EventRow(0, "ta", "tb"), EventRow(60000, "ta", "tb") >>,
      << EventRow(0, "ta", "tb"), EventRow(60000, "tb", "tc") >> }

\* --limit, --since
Limits == {0, 1, 2}
Sinces == { None, Some(60000) }

\* the command line of fetch_tx_details.py
DefaultTxArgs ==
    [ limit |-> 0, since |-> None, fetch_all |-> FALSE, no_jsonl |-> FALSE, sleep |-> 200 ]

\* ensure_schema(conn)
ensure_schema(s) ==
    ExecuteAll(s,
      << TableDef("tx_details",
                  <<"txid", "fetched_at", "success", "status_code", "error", "data_json">>),
         IndexDef("idx_tx_details_fetched_at", "tx_details", <<"fetched_at">>) >>)

\* WHERE observed_at >= ?
SinceOk(r) == args.since = None \/ r.observed_at[2] >= args.since[1]

\* SELECT old_txid ... UNION SELECT new_txid ...: the distinct txids of the rows
UnionTxids ==
    { replacement_events[k].old_txid[1] :
          k \in { j \in 1..Len(replacement_events) : SinceOk(replacement_events[j]) } }
    \cup
    { replacement_events[k].new_txid[1] :
          k \in { j \in 1..Len(replacement_events) : SinceOk(replacement_events[j]) } }

\* the result of the query, LIMIT applied
QueryResult ==
    LET all == SelectSeq(TxidOrder, LAMBDA t : t \in UnionTxids)
    IN  IF args.limit > 0 THEN SubSeq(all, 1, Min(args.limit, Len(all))) ELSE all

\* variant without the WHERE clause: a failure row counts as fetched
Existing_AnyRow == { tx_details[k].txid : k \in 1..Len(tx_details) }

\* SELECT txid FROM tx_details WHERE success = 1
Existing == { tx_details[k].txid : k \in { j \in 1..Len(tx_details) : tx_details[j].success = 1 } }

\* the txids main() goes on to fetch
Selected ==
    IF ~args.fetch_all /\ QueryResult # <<>>
    THEN SelectSeq(QueryResult, LAMBDA t : t \notin Existing)
    ELSE QueryResult

\* variant for a table without the primary key: the row is added
Upsert_Insert(t, row) == Append(t, row)

\* INSERT OR REPLACE INTO tx_details: the row of the txid is replaced
Upsert(t, row) == Append(SelectSeq(t, LAMBDA r : r.txid # row.txid), row)

\* what the steps of fetch_tx_details leave alone
TxFrame ==
    UNCHANGED <<args, loopVars, attempt, start, fres, data, latency_ms, trace, sleeps,
                faultsLeft, queue, api_snapshots, replacement_events, metrics, invoked,
                summaries, completed, flatVars>>

\* connect, ensure_schema, run the query, drop the txids that have a success row
TxStartup ==
    /\ pc = "tx_startup"
    /\ schema' = ensure_schema(schema)
    /\ txids' = Selected
    /\ pc' = "tx_loop"
    /\ UNCHANGED <<now, exc, jsonl, runs, tx_details, lastFetch>>
    /\ TxFrame

\* time.sleep(args.sleep) after the txid
AfterTxid(dur) == now' = now + dur + (IF args.sleep > 0 THEN args.sleep ELSE 0)

\* fetch_json returns: the success row is committed, the sink line appended
TxFetchOk ==
    /\ pc = "tx_loop"
    /\ txids # <<>>
    /\ \E dur \in CallDurations :
        LET txid == Head(txids)
            body == JObject(txid)
        IN  /\ tx_details' = Upsert(tx_details,
                                    [ txid        |-> txid,
                                      fetched_at  |-> utc_now_iso(now),
                                      success     |-> 1,
                                      status_code |-> Some(200),
                                      error       |-> None,
                                      data_json   |-> Some(Dumps(body)) ])
            /\ jsonl' = IF args.no_jsonl THEN jsonl
                        ELSE [jsonl EXCEPT !["tx_details.jsonl"] =
                                 Append(@, [fetched_at |-> utc_now_iso(now), txid |-> txid,
                                            data |-> Dumps(body)])]
            /\ lastFetch' = [lastFetch EXCEPT ![txid] =
                                Some([outcome |-> "success", at |-> now, code |-> 200,
                                      text |-> Dumps(body)])]
            /\ AfterTxid(dur)
    /\ txids' = Tail(txids)
    /\ UNCHANGED <<pc, exc, schema, runs>>
    /\ TxFrame

\* the status codes and bodies of the error answers of the upstream
ErrorAnswers == { [code |-> 404, body |-> "Transaction not found"],
                  [code |-> 503, body |-> "Service Unavailable"] }

\* except HTTPError: the failure row holds the status code and the body
TxFetchHTTPError ==
    /\ pc = "tx_loop"
    /\ txids # <<>>
    /\ \E dur \in CallDurations, e \in ErrorAnswers :
        LET txid == Head(txids)
        IN  /\ tx_details' = Upsert(tx_details,
                                    [ txid        |-> txid,
                                      fetched_at  |-> utc_now_iso(now),
                                      success     |-> 0,
                                      status_code |-> Some(e.code),
                                      error       |-> Some(e.body),
                                      data_json   |-> None ])
            /\ lastFetch' = [lastFetch EXCEPT ![txid] =
                                Some([outcome |-> "http", at |-> now, code |-> e.code,
                                      text |-> e.body])]
            /\ AfterTxid(dur)
    /\ txids' = Tail(txids)
    /\ UNCHANGED <<pc, exc, jsonl, schema, runs>>
    /\ TxFrame

\* except URLError: the failure row holds str(exc) and no status code
TxFetchURLError ==
    /\ pc = "tx_loop"
    /\ txids # <<>>
    /\ \E dur \in CallDurations :
        LET txid == Head(txids)
            e == [cls |-> "URLError", call |-> 1]
        IN  /\ tx_details' = Upsert(tx_details,
                                    [ txid        |-> txid,
                                      fetched_at  |-> utc_now_iso(now),
                                      success     |-> 0,
                                      status_code |-> None,
                                      error       |-> StrOf(e),
                                      data_json   |-> None ])
            /\ lastFetch' = [lastFetch EXCEPT ![txid] =
                                Some([outcome |-> "transport", at |-> now, code |-> 0,
                                      text |-> StrOf(e)[1]])]
            /\ AfterTxid(dur)
    /\ txids' = Tail(txids)
    /\ UNCHANGED <<pc, exc, jsonl, schema, runs>>
    /\ TxFrame

\* fetch_json raises an exception that neither except clause names: no row is
\* written and the process ends
TxFetchEscapes ==
    /\ pc = "tx_loop"
    /\ txids # <<>>
    /\ \E dur \in CallDurations, cls \in {"JSONDecodeError", "TimeoutError"} :
        /\ exc' = [cls |-> cls, call |-> 1]
        /\ lastFetch' = [lastFetch EXCEPT ![Head(txids)] =
                            Some([outcome |-> "escaped", at |-> now, code |-> 0, text |-> cls])]
        /\ now' = now + dur
    /\ pc' = "crashed"
    /\ UNCHANGED <<txids, tx_details, jsonl, schema, runs>>
    /\ TxFrame

\* the for loop is exhausted: close the connections, return 0
TxDone ==
    /\ pc = "tx_loop"
    /\ txids = <<>>
    /\ pc' = "tx_done"
    /\ UNCHANGED <<now, exc, jsonl, schema, runs, txVars>>
    /\ TxFrame

\* the script is started again with the same command line over the same stores
TxRerun ==
    /\ pc \in {"tx_done", "crashed"}
    /\ runs < MaxRuns
    /\ runs' = runs + 1
    /\ txids' = <<>>
    /\ exc' = None
    /\ pc' = "tx_startup"
    /\ UNCHANGED <<now, jsonl, schema, tx_details, lastFetch>>
    /\ TxFrame

InitTx ==
    /\ \E l \in Limits, si \in Sinces, fa \in BOOLEAN, nj \in BOOLEAN :
          args = [DefaultTxArgs EXCEPT !.limit = l, !.since = si, !.fetch_all = fa,
                                       !.no_jsonl = nj]
    /\ replacement_events \in SourceTables
    /\ pc = "tx_startup"
    /\ fres = "idle"
    /\ faultsLeft = 0
    /\ InitLoop /\ InitFetcher
    /\ queue = <<>>
    /\ api_snapshots = <<>>
    /\ jsonl = [f \in {"tx_details.jsonl"} |-> <<>>]
    /\ metrics = NewMetrics
    /\ invoked = <<>>
    /\ summaries = 0
    /\ schema = <<>>
    /\ runs = 1
    /\ tx_details = <<>>
    /\ txids = <<>>
    /\ lastFetch = [t \in Range(TxidOrder) |-> None]
    /\ completed = NoneCompleted
    /\ node = None /\ edges = <<>>

NextTx ==
    \/ TxStartup
    \/ TxFetchOk
    \/ TxFetchHTTPError
    \/ TxFetchURLError
    \/ TxFetchEscapes
    \/ TxDone
    \/ TxRerun

SpecTx == InitTx /\ [][NextTx]_vars

\* the calls of fetch_json made so far that failed
Failures == { i \in 1..Len(trace) : ~trace[i].ok }

\* C1: when every call of the client fails, the client is called exactly
\* retries + 1 times and the error raised is the one of the last call.
C1_AllFailCallsRetriesPlusOne ==
    (fres \in {"raised", "escaped"} /\ Failures = 1..Len(trace)) =>
        /\ Len(trace) = args.retries + 1
        /\ exc = [cls |-> trace[Len(trace)].cls, call |-> Len(trace)]

\* C2: the k-th sleep of a call is min(backoff_base * 2^(k-1), backoff_max), one
\* sleep follows each failed attempt that is retried, the sleeps never decrease,
\* never exceed backoff_max and sum to at most retries * backoff_max.
C2_BackoffSchedule ==
    /\ Len(sleeps) <= args.retries
    /\ Len(sleeps) = Cardinality({ i \in Failures : i <= args.retries /\ Caught(trace[i].cls) })
    /\ \A k \in 1..Len(sleeps) :
          /\ sleeps[k] = Min(args.backoff_base * (2 ^ (k - 1)), args.backoff_max)
          /\ sleeps[k] <= args.backoff_max
          /\ k > 1 => sleeps[k - 1] <= sleeps[k]
    /\ SumSeq(sleeps) <= args.retries * args.backoff_max

\* three sleeps, growing from the base until the cap holds them
C2_Witness ==
    /\ Len(sleeps) = 3
    /\ sleeps[1] = args.backoff_base
    /\ sleeps[1] < sleeps[2]
    /\ sleeps[2] = args.backoff_max
    /\ sleeps[3] = args.backoff_max

\* C3: a call that returns after k failed client calls has made exactly k + 1
\* client calls and k sleeps, k <= retries, and returns the body of call k + 1;
\* no call is made after a successful one.
C3_ReturnsAfterKFailures ==
    /\ fres = "returned" =>
          LET k == Len(trace) - 1
          IN  /\ k >= 0 /\ k <= args.retries
              /\ Failures = 1..k
              /\ data = trace[k + 1].body
              /\ Len(sleeps) = k
    /\ (trace # <<>> /\ trace[Len(trace)].ok) => fres = "returned"

\* retries = 3, calls 1 and 2 fail, call 3 succeeds: 3 calls, 2 sleeps
C3_Witness ==
    /\ args.retries = 3
    /\ fres = "returned"
    /\ Failures = {1, 2}
    /\ Len(trace) = 3
    /\ Len(sleeps) = 2
    /\ data = trace[3].body
    /\ data # None

(***************************************************************************)
(* The tree as a set of node positions: a position is the path of child    *)
(* indexes leading from the root to the node.                              *)
(***************************************************************************)
Kids(n) == IF Len(n.replaces) = 2 THEN n.replaces[2] ELSE <<>>

RECURSIVE Paths(_)
Paths(n) ==
    {<<>>} \cup UNION { { <<i>> \o p : p \in Paths(Kids(n)[i]) } : i \in 1..Len(Kids(n)) }

RECURSIVE NodeAt(_, _)
NodeAt(n, p) == IF p = <<>> THEN n ELSE NodeAt(Kids(n)[Head(p)], Tail(p))

Front(p) == SubSeq(p, 1, Len(p) - 1)

IsPrefix(p, q) == Len(p) <= Len(q) /\ SubSeq(q, 1, Len(p)) = p

\* p is visited before q by a depth-first pre-order walk, children in array order
Before(p, q) ==
    /\ p # q
    /\ \/ IsPrefix(p, q)
       \/ /\ ~IsPrefix(q, p)
          /\ LET i == CHOOSE k \in 1..Min(Len(p), Len(q)) :
                          p[k] # q[k] /\ \A j \in 1..(k - 1) : p[j] = q[j]
             IN  p[i] < q[i]

NonRoot(n) == Paths(n) \ {<<>>}

Rank(n, p) == Cardinality({ q \in NonRoot(n) : Before(q, p) }) + 1

(***************************************************************************)
(* Claims about a run                                                      *)
(***************************************************************************)

\* the endpoint is switched off on the command line
SwitchedOff(name) ==
    \/ name = "mempool_blocks" /\ args.no_mempool_blocks
    \/ name = "replacements" /\ args.no_replacements

IsEnabled(name) == ~SwitchedOff(name)

EnabledOrder == SelectSeq(ENDPOINTS, IsEnabled)

FromThisCycle(r) == r.observed_at = ts

\* the endpoints of the snapshots committed in the current cycle, in id order
CycleSnapshotNames ==
    LET rows == SelectSeq(api_snapshots, FromThisCycle)
    IN  [i \in 1..Len(rows) |-> rows[i].endpoint]

\* the current cycle will write nothing more
CycleOver == cycle >= 1 /\ pc \in {"summary", "while", "done", "crashed"}

\* C4: every kind of fetch failure is retried up to the budget, then recorded,
\* and the loop goes on: no fetch failure ends the process, and at the end of a
\* cycle every enabled endpoint has been fetched.
C4_FetchFailureNeverAborts ==
    /\ fres \in {"raised", "escaped"} => Len(trace) = args.retries + 1
    /\ pc = "crashed" => exc.cls \notin ExceptionClasses
    /\ pc = "summary" => invoked = EnabledOrder

\* C5: a switched-off endpoint is never handed to the fetcher and gets no
\* snapshot, no sink line and no edge row, and every enabled endpoint the loop
\* has passed has been handed to the fetcher.
C5_DisabledNeverTouched ==
    \A i \in 1..Len(ENDPOINTS) :
        LET name == ENDPOINTS[i]
        IN  /\ SwitchedOff(name) =>
                  /\ name \notin Range(invoked)
                  /\ \A k \in 1..Len(api_snapshots) : api_snapshots[k].endpoint # name
                  /\ jsonl[name \o ".jsonl"] = <<>>
                  /\ name = "replacements" => replacement_events = <<>>
            /\ (~SwitchedOff(name) /\ cycle >= 1 /\ i < idx) => name \in Range(invoked)

\* a finished cycle with mempool_blocks switched off and the other four
\* endpoints fetched and stored
C5_Witness ==
    /\ pc = "summary"
    /\ args.no_mempool_blocks /\ ~args.no_replacements
    /\ db_writer # None /\ ~args.no_jsonl
    /\ invoked = <<"mempool", "fees", "fees_precise", "replacements">>
    /\ Len(api_snapshots) = 4

\* C6: every api_snapshots row is either a success with payload and latency
\* and no error, or a failure with error and neither payload nor latency.
C6_SnapshotCoupling ==
    \A k \in 1..Len(api_snapshots) :
        LET r == api_snapshots[k]
        IN  \/ /\ r.success = 1
               /\ r.data_json # None
               /\ r.latency_ms # None /\ r.latency_ms[1] >= 0
               /\ r.error = None
            \/ /\ r.success = 0
               /\ r.error # None
               /\ r.data_json = None
               /\ r.latency_ms = None

\* C7: with storage, the snapshots of a cycle are committed in ENDPOINTS order,
\* each before the next fetch begins, and a cycle that is over has written
\* exactly one snapshot per enabled endpoint.
C7_OneSnapshotPerEndpointInOrder ==
    db_writer # None =>
        /\ Len(CycleSnapshotNames) <= Len(EnabledOrder)
        /\ CycleSnapshotNames = SubSeq(EnabledOrder, 1, Len(CycleSnapshotNames))
        /\ pc = "fetch" =>
              CycleSnapshotNames = SelectSeq(SubSeq(ENDPOINTS, 1, idx - 1), IsEnabled)
        /\ CycleOver => CycleSnapshotNames = EnabledOrder

\* C8: with interval <= 0 the run ends after exactly one complete cycle; with
\* interval > 0 the run never ends once it has started cycling, and the clock
\* advances by interval seconds between the end of a cycle and the next one.
C8_IntervalDecidesTermination ==
    /\ [](/\ (pc \in {"done", "crashed"} /\ cycle >= 1 /\ args.interval <= 0) =>
                 (pc = "done" /\ cycle = 1 /\ summaries = 1)
          /\ (args.interval > 0 /\ cycle >= 1) => pc \notin {"done", "crashed"})
    /\ [][(pc = "summary" /\ args.interval > 0) =>
              (pc' = "while" /\ now' = now + 1000 * args.interval)]_vars

\* a txid that is present and not empty
GoodId(v) == Len(v) = 1 /\ v # <<"">>

\* the txid of a tree node
TxidOf(n) == IF Len(n.tx) = 1 THEN n.tx[1].txid ELSE Absent

\* the (tree, position) pairs of a payload whose edge has a txid on both sides
ValidPositions(d) ==
    { ip \in UNION { { <<i, p>> : p \in NonRoot(d[2][i]) } : i \in 1..Len(d[2]) } :
        /\ GoodId(TxidOf(NodeAt(d[2][ip[1]], ip[2])))
        /\ GoodId(TxidOf(NodeAt(d[2][ip[1]], Front(ip[2])))) }

AllPositions(d) == UNION { { <<i, p>> : p \in NonRoot(d[2][i]) } : i \in 1..Len(d[2]) }

CycleEdgeRows == SelectSeq(replacement_events, FromThisCycle)

BadSide(n) == ~GoodId(TxidOf(n))

\* the edge sides (old or new transaction of an edge) of a payload without txid
MalformedSides(d) ==
    { <<ip, "old">> : ip \in { q \in AllPositions(d) : BadSide(NodeAt(d[2][q[1]], q[2])) } }
    \cup
    { <<ip, "new">> : ip \in { q \in AllPositions(d) : BadSide(NodeAt(d[2][q[1]], Front(q[2]))) } }

\* the edges of a payload that lack the txid on at least one side
MalformedEdges(d) ==
    { ip \in AllPositions(d) :
        \/ BadSide(NodeAt(d[2][ip[1]], ip[2]))
        \/ BadSide(NodeAt(d[2][ip[1]], Front(ip[2]))) }

\* a replacements payload has been handled completely and storage is on
EdgesHandled == pc = "record" /\ ENDPOINTS[idx] = "replacements" /\ db_writer # None

FieldOf(n, key) == IF n[key] = Absent THEN None ELSE n[key]

\* the value of a key of the tx object of a tree node
TxFieldOf(n, key) == IF Len(n.tx) = 1 THEN FieldOf(n.tx[1], key) ELSE None

\* a boolean as the INTEGER columns full_rbf and mined hold it
Flag(v) == IF v = Some(TRUE) THEN Some(1) ELSE IF v = Some(FALSE) THEN Some(0) ELSE None

\* the transaction columns of a stored edge row
RowFacts(r) ==
    [ old_txid |-> r.old_txid, old_fee_sat |-> r.old_fee_sat,
      old_feerate |-> r.old_feerate, old_vsize |-> r.old_vsize,
      new_txid |-> r.new_txid, new_fee_sat |-> r.new_fee_sat,
      new_feerate |-> r.new_feerate, new_vsize |-> r.new_vsize,
      interval_seconds |-> r.interval_seconds, full_rbf |-> r.full_rbf,
      mined |-> r.mined ]

\* the same columns read off the tree: child c replaced by parent n
TreeFacts(c, n) ==
    [ old_txid |-> TxFieldOf(c, "txid"), old_fee_sat |-> TxFieldOf(c, "fee"),
      old_feerate |-> TxFieldOf(c, "rate"), old_vsize |-> TxFieldOf(c, "vsize"),
      new_txid |-> TxFieldOf(n, "txid"), new_fee_sat |-> TxFieldOf(n, "fee"),
      new_feerate |-> TxFieldOf(n, "rate"), new_vsize |-> TxFieldOf(n, "vsize"),
      interval_seconds |-> FieldOf(c, "interval"), full_rbf |-> Flag(FieldOf(c, "fullRbf")),
      mined |-> Flag(FieldOf(c, "mined")) ]

\* a single run has ended after storing the payload new1[old1]
ExampleRunDone ==
    /\ pc = "done" /\ runs = 1
    /\ \E k \in 1..Len(api_snapshots) :
          /\ api_snapshots[k].endpoint = "replacements"
          /\ api_snapshots[k].data_json = Some(Dumps(ExamplePayload))

\* C12: a stored edge row takes its old_* columns from the child's tx, its new_*
\* columns from the parent's tx and interval_seconds, full_rbf and mined from the
\* child node; the payload new1[old1] ends with exactly one row old1/new1 with
\* fees 300/500, interval 100 and full_rbf false (stored as 0).
C12_RowColumnsFromTree ==
    /\ EdgesHandled =>
          { RowFacts(CycleEdgeRows[k]) : k \in 1..Len(CycleEdgeRows) }
          = { TreeFacts(NodeAt(data[2][ip[1]], ip[2]), NodeAt(data[2][ip[1]], Front(ip[2]))) :
                  ip \in ValidPositions(data) }
    /\ ExampleRunDone =>
          /\ Len(replacement_events) = 1
          /\ replacement_events[1].old_txid = Some("old1")
          /\ replacement_events[1].new_txid = Some("new1")
          /\ replacement_events[1].old_fee_sat = Some(300)
          /\ replacement_events[1].new_fee_sat = Some(500)
          /\ replacement_events[1].interval_seconds = Some(100)
          /\ replacement_events[1].full_rbf = Some(0)

\* the run over the payload new1[old1] has ended with its row stored
C12_Witness ==
    /\ ExampleRunDone
    /\ Len(replacement_events) = 1
    /\ replacement_events[1].old_vsize = Some(200)
    /\ replacement_events[1].mined = None

\* the non-root positions of a tree, parents before children, children in
\* array order
RECURSIVE PathsInOrder(_)
PathsInOrder(n) ==
    Concat([ j \in 1..Len(Kids(n)) |->
               LET below == PathsInOrder(Kids(n)[j])
               IN  << <<j>> >> \o [ m \in 1..Len(below) |-> <<j>> \o below[m] ] ])

\* the (tree, position) pairs of a payload, trees in list order
PositionsInOrder(d) ==
    Concat([ i \in 1..Len(d[2]) |->
               LET ps == PathsInOrder(d[2][i])
               IN  [ m \in 1..Len(ps) |-> <<i, ps[m]>> ] ])

\* C13: every flattened edge record carries the child's time, interval, fullRbf
\* and mined and the parent's time as new_time, and the event_time stored for
\* an edge is the time of the edge's parent node, also below the first level.
C13_EdgeCarriesChildFieldsParentTime ==
    /\ (pc = "edges" /\ data # None) =>
          LET ps == PositionsInOrder(data)
              taken == Len(ps) - Len(queue)
          IN  /\ taken >= 0
              /\ \A k \in 1..Len(queue) :
                    LET ip == ps[taken + k]
                        c == NodeAt(data[2][ip[1]], ip[2])
                        n == NodeAt(data[2][ip[1]], Front(ip[2]))
                    IN  /\ queue[k].old_time = FieldOf(c, "time")
                        /\ queue[k].interval = FieldOf(c, "interval")
                        /\ queue[k].full_rbf = FieldOf(c, "fullRbf")
                        /\ queue[k].mined = FieldOf(c, "mined")
                        /\ queue[k].new_time = FieldOf(n, "time")
    /\ EdgesHandled =>
          { <<CycleEdgeRows[k].old_txid, CycleEdgeRows[k].new_txid, CycleEdgeRows[k].event_time>> :
                k \in 1..Len(CycleEdgeRows) }
          = { <<TxidOf(NodeAt(data[2][ip[1]], ip[2])),
                TxidOf(NodeAt(data[2][ip[1]], Front(ip[2]))),
                FieldOf(NodeAt(data[2][ip[1]], Front(ip[2])), "time")>> :
                ip \in ValidPositions(data) }

\* the chain r1 <- m1 <- o6 is stored: the edge o6 -> m1 carries the time of m1
C13_Witness ==
    /\ EdgesHandled
    /\ Len(CycleEdgeRows) = 4
    /\ CycleEdgeRows[4].old_txid = Some("o6")
    /\ CycleEdgeRows[4].new_txid = Some("m1")
    /\ CycleEdgeRows[4].event_time = Some(4900)
    /\ CycleEdgeRows[4].mined = Some(1)
    /\ CycleEdgeRows[3].event_time = Some(5000)

(***************************************************************************)
(* Claims about the store                                                  *)
(***************************************************************************)
\* the names of the tables and indexes of the store
ObjectNames == { schema[k].name : k \in 1..Len(schema) }

\* the three tables and four indexes of the logical schema
LogicalSchema ==
    { "api_snapshots", "replacement_events", "tx_details",
      "idx_api_snapshots_time", "idx_api_snapshots_endpoint",
      "idx_replacement_events_time", "idx_replacement_events_txids" }

\* C14: after the construction of the storage writer the store holds the three
\* tables and the four indexes of the logical schema, whichever the backend.
C14_SameSchemaBothKinds ==
    db_writer # None => LogicalSchema \subseteq ObjectNames

NoDuplicateObjects ==
    \A i, j \in 1..Len(schema) : i # j => schema[i].name # schema[j].name

\* C15: a call of ensureSchema on a store that has its schema already, rows
\* included, changes neither the tables and indexes nor any row, and no object
\* is ever there twice.
C15_EnsureSchemaIdempotent ==
    /\ []NoDuplicateObjects
    /\ [][(pc = "startup" /\ pc' = "while" /\ db_writer' # None /\ schema # <<>>) =>
              /\ schema' = schema
              /\ api_snapshots' = api_snapshots
              /\ replacement_events' = replacement_events]_vars

\* the writer is constructed over the store of an earlier run, rows included
C15_Witness ==
    /\ pc = "while" /\ cycle = 0
    /\ db_writer = Some("sqlite")
    /\ api_snapshots = EarlierSnapshots
    /\ Len(schema) = 6

\* C16: the scheme alone selects the backend: "" and sqlite the embedded one,
\* postgres and postgresql the networked one; with any other scheme the run
\* ends at startup with a configuration error, before any fetch, row or line.
C16_SchemeSelectsBackend ==
    /\ db_writer # None =>
          \/ args.db.scheme \in {"", "sqlite"} /\ db_writer = Some("sqlite")
          \/ args.db.scheme \in {"postgres", "postgresql"} /\ db_writer = Some("postgres")
    /\ (args.db # EmptyUrl /\ pc \notin {"startup", "crashed"}) => db_writer # None
    /\ args.db.scheme \notin {"", "sqlite", "postgres", "postgresql"} =>
          /\ pc \in {"startup", "crashed"}
          /\ pc = "crashed" => exc.cls = "ValueError"
          /\ cycle = 0 /\ invoked = <<>>
          /\ api_snapshots = <<>> /\ replacement_events = <<>>
          /\ \A f \in OutFiles : jsonl[f] = <<>>
          /\ schema = <<>>

\* the run with an ftp connection string has ended at startup
C16_Witness ==
    /\ args.db.scheme = "ftp"
    /\ pc = "crashed"
    /\ exc.cls = "ValueError"
    /\ cycle = 0

\* the edge has a txid on both sides
IsValidPosition(d, ip) ==
    /\ GoodId(TxidOf(NodeAt(d[2][ip[1]], ip[2])))
    /\ GoodId(TxidOf(NodeAt(d[2][ip[1]], Front(ip[2]))))

\* the edges of a payload that are to be stored, in the order of the writes
ValidInOrder(d) == SelectSeq(PositionsInOrder(d), LAMBDA ip : IsValidPosition(d, ip))

\* the rows committed in the current cycle are a prefix of the cycle's writes
CommittedIsPrefix ==
    /\ IsPrefix(CycleSnapshotNames, EnabledOrder)
    /\ CycleEdgeRows # <<>> =>
          \E k \in 1..Len(api_snapshots) :
              /\ api_snapshots[k].observed_at = ts
              /\ api_snapshots[k].endpoint = "replacements"
              /\ api_snapshots[k].success = 1
    /\ (data # None /\ data[1] = "list") =>
          LET todo == ValidInOrder(data)
          IN  /\ Len(CycleEdgeRows) <= Len(todo)
              /\ \A k \in 1..Len(CycleEdgeRows) :
                    RowFacts(CycleEdgeRows[k])
                    = TreeFacts(NodeAt(data[2][todo[k][1]], todo[k][2]),
                                NodeAt(data[2][todo[k][1]], Front(todo[k][2])))

\* every committed row has its NOT NULL columns
RowsComplete ==
    /\ \A k \in 1..Len(api_snapshots) :
          /\ api_snapshots[k].observed_at # None
          /\ api_snapshots[k].endpoint \in Range(ENDPOINTS)
          /\ api_snapshots[k].success \in {0, 1}
    /\ \A k \in 1..Len(replacement_events) :
          /\ replacement_events[k].observed_at # None
          /\ GoodId(replacement_events[k].old_txid)
          /\ GoodId(replacement_events[k].new_txid)

\* C19: wherever the process stops, the rows committed in the cycle are a prefix
\* of the cycle's write sequence, every committed row is complete, and no step,
\* a failing write included, changes or removes a committed row.
C19_InsertsCommitIndependently ==
    /\ [](CommittedIsPrefix /\ RowsComplete)
    /\ [][/\ IsPrefix(api_snapshots, api_snapshots')
           /\ IsPrefix(replacement_events, replacement_events')]_vars

\* the third edge write of a cycle fails: the snapshots and two edge rows of the
\* cycle are in the store
C19_Witness ==
    /\ pc = "crashed"
    /\ exc.cls = "OperationalError"
    /\ data # None
    /\ Len(CycleEdgeRows) = 2
    /\ Len(CycleSnapshotNames) = 4

(***************************************************************************)
(* Claims about what a cycle persists                                      *)
(***************************************************************************)
\* C18: when a successful fetch has been handled and its payload is about to
\* be dropped, a sink line or a snapshot of this cycle has been written for it.
C18_PayloadPersistedBeforeDropped ==
    pc = "record" =>
        \/ \E k \in 1..Len(jsonl[OutFile(ENDPOINTS[idx])]) :
               jsonl[OutFile(ENDPOINTS[idx])][k].observed_at = ts
        \/ \E k \in 1..Len(api_snapshots) :
               /\ api_snapshots[k].observed_at = ts
               /\ api_snapshots[k].endpoint = ENDPOINTS[idx]
               /\ api_snapshots[k].success = 1

\* the number of rows stored for a pair of txids
PairCount(old, new) ==
    Cardinality({ k \in 1..Len(replacement_events) :
                    /\ replacement_events[k].old_txid = old
                    /\ replacement_events[k].new_txid = new })

\* the number of successful replacements cycles that observed the payload
ObservedCount(d) ==
    Cardinality({ k \in 1..Len(api_snapshots) :
                    /\ api_snapshots[k].endpoint = "replacements"
                    /\ api_snapshots[k].success = 1
                    /\ api_snapshots[k].data_json = Some(Dumps(d)) })

\* the pairs <<old_txid, new_txid>> of the edges of a payload that are to be stored
PairsOfPayload ==
    [ d \in ReplacementPayloads |->
        { <<TxidOf(NodeAt(d[2][ip[1]], ip[2])), TxidOf(NodeAt(d[2][ip[1]], Front(ip[2])))>> :
              ip \in ValidPositions(d) } ]

\* C20: no step updates or deletes a row of api_snapshots or replacement_events,
\* and a pair of txids is stored once for every successful replacements cycle
\* that observed it.
C20_AppendOnlyNoDedup ==
    /\ [](pc # "edges" =>
             \A d \in ReplacementPayloads :
                 \A pair \in PairsOfPayload[d] : PairCount(pair[1], pair[2]) = ObservedCount(d))
    /\ [][/\ IsPrefix(api_snapshots, api_snapshots')
           /\ IsPrefix(replacement_events, replacement_events')]_vars

\* the pair old1 -> new1 has been observed in two cycles and is stored twice
C20_Witness ==
    /\ cycle = 2
    /\ PairCount(Some("old1"), Some("new1")) = 2
    /\ ObservedCount(ExamplePayload) = 2
    /\ replacement_events[1].observed_at # replacement_events[2].observed_at

(***************************************************************************)
(* Claims about tx_details                                                 *)
(***************************************************************************)
\* the rows of tx_details of a txid
RowsOf(t) == { k \in 1..Len(tx_details) : tx_details[k].txid = t }

\* the row holds what the fetch f gave
RowHolds(r, f) ==
    /\ r.fetched_at = utc_now_iso(f.at)
    /\ f.outcome = "success" =>
          /\ r.success = 1 /\ r.status_code = Some(200)
          /\ r.error = None /\ r.data_json = Some(f.text)
    /\ f.outcome = "http" =>
          /\ r.success = 0 /\ r.status_code = Some(f.code)
          /\ r.error = Some(f.text) /\ r.data_json = None
    /\ f.outcome = "transport" =>
          /\ r.success = 0 /\ r.status_code = None
          /\ r.error = Some(f.text) /\ r.data_json = None

\* C17: tx_details holds at most one row per txid, and when the most recent
\* fetch of a txid ended in success, an HTTP error or a transport error, that
\* row holds the values of this fetch, whatever was stored before.
C17_OneRowPerTxidLatestWins ==
    \A t \in Range(TxidOrder) :
        /\ Cardinality(RowsOf(t)) <= 1
        /\ lastFetch[t] = None => RowsOf(t) = {}
        /\ (lastFetch[t] # None /\ lastFetch[t][1].outcome \in {"success", "http", "transport"}) =>
              \E k \in RowsOf(t) : RowHolds(tx_details[k], lastFetch[t][1])

\* in a second run the fetch of ta fails after it succeeded in the first: the
\* one row of ta is the failure
C17_Witness ==
    /\ runs = 2
    /\ \E j \in 1..Len(jsonl["tx_details.jsonl"]) : jsonl["tx_details.jsonl"][j].txid = "ta"
    /\ Cardinality(RowsOf("ta")) = 1
    /\ \E k \in RowsOf("ta") : tx_details[k].success = 0 /\ tx_details[k].status_code = Some(503)
    /\ Len(tx_details) = 2

(***************************************************************************)
(* The run-level metrics                                                   *)
(***************************************************************************)
\* the for loop of the cycle is exhausted: the summary line is about to be
\* printed or has been printed
CycleEnded == cycle >= 1 /\ pc \in {"summary", "while", "done"}

\* a step of main() changes the metrics
MetricsStep == metrics' # metrics

(* C21: the metrics are updated exactly once per fetch outcome.  At the end
   of every cycle total_ok + total_err is the number of calls of the fetcher
   that have ended since the run started, which is the number of enabled
   endpoints in every cycle so far; total_ok is the number of calls that
   returned and total_latency_ms the sum of their latencies; one summary
   line has been printed per cycle.  Between two ends of cycle the metrics
   lag at most the one outcome that is being handled.  Which endpoint is
   fetched depends on the toggles alone and whether the run goes on depends
   on the interval alone, whatever the counters hold. *)
C21_MetricsOncePerOutcome ==
    /\ [](/\ completed.ok - metrics.total_ok \in {0, 1}
          /\ completed.err - metrics.total_err \in {0, 1}
          /\ CycleEnded =>
                /\ metrics.total_ok + metrics.total_err = completed.ok + completed.err
                /\ completed.ok + completed.err = cycle * Len(EnabledOrder)
                /\ completed.escaped = 0
                /\ metrics.total_ok = completed.ok
                /\ metrics.total_err = completed.err
                /\ metrics.total_latency_ms = completed.latency
                /\ summaries = (IF pc = "summary" THEN cycle - 1 ELSE cycle))
    /\ [][/\ MetricsStep =>
                /\ metrics'.total_ok + metrics'.total_err
                      = metrics.total_ok + metrics.total_err + 1
                /\ metrics'.total_ok + metrics'.total_err = completed.ok + completed.err
          /\ (pc = "for" /\ idx <= Len(ENDPOINTS)) =>
                IF SwitchedOff(ENDPOINTS[idx])
                THEN pc' = "for" /\ idx' = idx + 1 /\ completed' = completed
                ELSE pc' = "fetch" /\ fres' = "running"
          /\ pc = "summary" =>
                /\ summaries' = summaries + 1
                /\ pc' = (IF args.interval > 0 THEN "while" ELSE "done")
          /\ pc # "summary" => summaries' = summaries]_vars

\* the second cycle of a run has ended, one fetch of the run failed and the
\* others succeeded
C21_Witness ==
    /\ pc = "summary"
    /\ cycle = 2
    /\ metrics.total_err = 1
    /\ metrics.total_ok = 2 * Len(EnabledOrder) - 1
    /\ metrics.total_latency_ms = 3 * metrics.total_ok
    /\ summaries = 1

(***************************************************************************)
(* The order of the writes of a successful replacements fetch              *)
(***************************************************************************)
\* the line of the current cycle is in the sink file of replacements
SinkLineWritten ==
    \E k \in 1..Len(jsonl["replacements.jsonl"]) :
        jsonl["replacements.jsonl"][k].observed_at = ts

\* the success snapshot of replacements with the given observed_at is committed
SnapshotCommitted(at) ==
    \E k \in 1..Len(api_snapshots) :
        /\ api_snapshots[k].observed_at = at
        /\ api_snapshots[k].endpoint = "replacements"
        /\ api_snapshots[k].success = 1

\* the success of the fetch that is being handled is not yet in the metrics
NotYetRecorded == metrics.total_ok = completed.ok - 1

\* <<old_txid, new_txid>> of the edges of a payload that are to be stored, trees
\* in list order and the edges of a tree in the order of the flattener
PairsInOrder ==
    [ d \in ReplacementPayloads |->
        LET todo == ValidInOrder(d)
        IN  [ k \in 1..Len(todo) |->
                << TxidOf(NodeAt(d[2][todo[k][1]], todo[k][2])),
                   TxidOf(NodeAt(d[2][todo[k][1]], Front(todo[k][2]))) >> ] ]

\* <<old_txid, new_txid>> of the rows of the cycle followed by those of the
\* edges still to be handled that have both
PairsDoneAndToDo ==
    LET rest == SelectSeq(queue, LAMBDA e : GoodId(e.old_tx[1].txid) /\ GoodId(e.new_tx[1].txid))
    IN  [ k \in 1..Len(CycleEdgeRows) |->
            <<CycleEdgeRows[k].old_txid, CycleEdgeRows[k].new_txid>> ]
        \o [ k \in 1..Len(rest) |-> <<rest[k].old_tx[1].txid, rest[k].new_tx[1].txid>> ]

(* C22: for a successful fetch of replacements the sink line is appended
   first (when the sink is on), then the success snapshot is committed, then
   the edges of every top-level node are handled in list order and the valid
   ones committed, and the success is recorded in the metrics last.  No edge
   row is in the store without the success snapshot of replacements of its
   cycle, and only the handling of the replacements endpoint adds edge rows. *)
C22_ReplacementsWriteOrder ==
    /\ [](/\ (pc = "snapshot" /\ ENDPOINTS[idx] = "replacements") =>
                /\ ~args.no_jsonl => SinkLineWritten
                /\ ~SnapshotCommitted(ts)
                /\ CycleEdgeRows = <<>>
                /\ NotYetRecorded
          /\ (pc = "edges") =>
                /\ ENDPOINTS[idx] = "replacements"
                /\ db_writer # None
                /\ ~args.no_jsonl => SinkLineWritten
                /\ SnapshotCommitted(ts)
                /\ PairsDoneAndToDo = PairsInOrder[data]
                /\ NotYetRecorded
          /\ (pc = "record" /\ ENDPOINTS[idx] = "replacements" /\ db_writer # None) =>
                /\ SnapshotCommitted(ts)
                /\ PairsDoneAndToDo = PairsInOrder[data]
                /\ queue = <<>>
                /\ NotYetRecorded
          /\ \A k \in 1..Len(replacement_events) :
                SnapshotCommitted(replacement_events[k].observed_at))
    /\ [][replacement_events' # replacement_events =>
             /\ pc = "edges"
             /\ ENDPOINTS[idx] = "replacements"
             /\ metrics' = metrics]_vars

\* the four valid edges of the four-tree payload are committed after the sink
\* line and the snapshot, and the success is still to be recorded
C22_Witness ==
    /\ pc = "record"
    /\ ENDPOINTS[idx] = "replacements"
    /\ data = MalformedPayload
    /\ SinkLineWritten
    /\ SnapshotCommitted(ts)
    /\ Len(CycleEdgeRows) = 4
    /\ NotYetRecorded

(***************************************************************************)
(* The txids a run of fetch_tx_details selects                             *)
(***************************************************************************)
\* the distinct old_txid and new_txid values of the rows of replacement_events
\* that meet the condition (the columns are NOT NULL)
DistinctTxids(Cond(_)) ==
    UNION { { replacement_events[k].old_txid[1], replacement_events[k].new_txid[1] } :
              k \in { j \in 1..Len(replacement_events) : Cond(replacement_events[j]) } }

AnyRow(r) == TRUE

Recent(r) == args.since # None => r.observed_at[2] >= args.since[1]

\* the txids with a success row in tx_details
SuccessTxids == { t \in Range(TxidOrder) : \E k \in RowsOf(t) : tx_details[k].success = 1 }

\* the txids with a failure row in tx_details
FailedTxids == { t \in Range(TxidOrder) : \E k \in RowsOf(t) : tx_details[k].success = 0 }

NoDuplicates(s) == \A i, j \in 1..Len(s) : s[i] = s[j] => i = j

(* C23: the txids a run goes on to fetch are distinct txids of
   replacement_events (of the rows --since admits, at most --limit of them).
   Without --fetch-all none of them has a success row in tx_details, and
   without --limit exactly the txids with a success row are left out, so a
   txid with a failure row is selected again; with --fetch-all and without
   --limit none is left out.  The list has no duplicates, only the start of
   the run fills it and every fetch takes its head off, so a txid is fetched
   at most once in a run. *)
C23_SelectedTxids ==
    /\ [](NoDuplicates(txids) /\ Range(txids) \subseteq DistinctTxids(AnyRow))
    /\ [][/\ pc = "tx_startup" =>
                /\ Range(txids') \subseteq DistinctTxids(Recent)
                /\ args.limit > 0 => Len(txids') <= args.limit
                /\ ~args.fetch_all => Range(txids') \cap SuccessTxids = {}
                /\ args.limit = 0 =>
                      Range(txids') = (IF args.fetch_all THEN DistinctTxids(Recent)
                                       ELSE DistinctTxids(Recent) \ SuccessTxids)
          /\ pc # "tx_startup" =>
                \/ txids' = txids
                \/ txids' = <<>>
                \/ txids # <<>> /\ txids' = Tail(txids)
          /\ \A t \in Range(TxidOrder) :
                lastFetch'[t] # lastFetch[t] =>
                    /\ txids # <<>> /\ t = Head(txids)
                    /\ \/ txids' = Tail(txids)
                       \/ pc' = "crashed" /\ txids' = txids]_vars

\* the second run in the default mode has selected only the txid whose fetch
\* failed in the first run; the two txids with a success row are left out
C23_Witness ==
    /\ runs = 2
    /\ pc = "tx_loop"
    /\ ~args.fetch_all /\ args.limit = 0 /\ args.since = None
    /\ DistinctTxids(AnyRow) = {"ta", "tb", "tc"}
    /\ SuccessTxids = {"ta", "tc"}
    /\ FailedTxids = {"tb"}
    /\ txids = <<"tb">>
    /\ lastFetch["tb"][1].outcome # "success"

(* C24: every fetch attempt for a txid, whatever its outcome, creates or
   overwrites the tx_details row of the txid, and the run goes on to the next
   txid: the row of a txid that has been fetched is the row of its last
   attempt, and no attempt ends the run. *)
C24_EveryAttemptLeavesRow ==
    /\ \A t \in Range(TxidOrder) :
          lastFetch[t] # None =>
              \E k \in RowsOf(t) : tx_details[k].fetched_at = utc_now_iso(lastFetch[t][1].at)
    /\ pc # "crashed"

(***************************************************************************)
(* The latency of a fetch                                                  *)
(***************************************************************************)
\* the time the current call of fetch_json_with_retry has taken: its calls of
\* fetch_json and its sleeps
TimeInFetcher == SumSeq([k \in 1..Len(trace) |-> trace[k].dur]) + SumSeq(sleeps)

\* the last row of api_snapshots
LastSnapshot == api_snapshots[Len(api_snapshots)]

(* C25: the latency fetch_json_with_retry returns is the duration of its
   last, successful call of fetch_json; after failed attempts it is less than
   the time spent in the fetcher, which holds the failed attempts and the
   backoff sleeps as well.  The success snapshot stores that latency: the
   latency of every success row is the duration of one call of fetch_json. *)
C25_LatencyOfLastAttempt ==
    /\ [](/\ fres = "returned" =>
                /\ latency_ms = Some(trace[Len(trace)].dur)
                /\ Len(trace) > 1 => latency_ms[1] < TimeInFetcher
                /\ Len(trace) = 1 => latency_ms[1] = TimeInFetcher
          /\ \A k \in 1..Len(api_snapshots) :
                IF api_snapshots[k].success = 1
                THEN /\ api_snapshots[k].latency_ms # None
                     /\ api_snapshots[k].latency_ms[1] \in CallDurations
                ELSE api_snapshots[k].latency_ms = None)
    /\ [][(pc = "snapshot" /\ api_snapshots' # api_snapshots) =>
             api_snapshots'[Len(api_snapshots')].latency_ms = latency_ms]_vars

\* the first endpoint of a cycle is fetched at the second attempt, after a
\* sleep of 500 ms: 506 ms after the start of the cycle the success snapshot
\* holds the 3 ms of the second attempt
C25_Witness ==
    /\ pc = "record"
    /\ idx = 1
    /\ db_writer # None
    /\ now - ts[2] = 506
    /\ LastSnapshot.success = 1
    /\ LastSnapshot.observed_at = ts
    /\ LastSnapshot.latency_ms = Some(3)

(***************************************************************************)
(* observed_at                                                             *)
(***************************************************************************)
\* the observed_at values of a table or file are non-decreasing in write order
\* and none is later than the start of the current cycle
InWriteOrder(t) ==
    /\ \A k \in 1..Len(t) : t[k].observed_at[1] = "iso" /\ t[k].observed_at[2] <= ts[2]
    /\ \A k \in 1..(Len(t) - 1) : t[k].observed_at[2] <= t[k + 1].observed_at[2]

\* the step appends to the table or file exactly one element, which carries ts
AppendsWithTs(t, u) ==
    u # t => /\ Len(u) = Len(t) + 1
             /\ SubSeq(u, 1, Len(t)) = t
             /\ u[Len(u)].observed_at = ts
             /\ ts' = ts

\* the observed_at values found in the store and the files
ObservedAts ==
    { api_snapshots[k].observed_at : k \in 1..Len(api_snapshots) }
    \cup { replacement_events[k].observed_at : k \in 1..Len(replacement_events) }
    \cup UNION { { jsonl[f][k].observed_at : k \in 1..Len(jsonl[f]) } : f \in DOMAIN jsonl }

(* C26: every snapshot, edge row and sink line is written with the ts of the
   cycle it is written in, which is the clock value read at the top of the
   cycle, before the first fetch, and stays the same until the next cycle
   starts, however far the clock has advanced when the write happens.  With
   the clock never going back, the observed_at values of each table and file
   are non-decreasing in write order, and there are at most as many different
   values as cycles. *)
C26_ObservedAtOncePerCycle ==
    /\ [](/\ InWriteOrder(api_snapshots)
          /\ InWriteOrder(replacement_events)
          /\ \A f \in DOMAIN jsonl : InWriteOrder(jsonl[f])
          /\ Cardinality(ObservedAts) <= cycle
          /\ ts # None => ts[2] <= now)
    /\ [][/\ AppendsWithTs(api_snapshots, api_snapshots')
          /\ AppendsWithTs(replacement_events, replacement_events')
          /\ \A f \in DOMAIN jsonl : AppendsWithTs(jsonl[f], jsonl'[f])
          /\ now' >= now
          /\ IF cycle' # cycle
             THEN ts' = utc_now_iso(now) /\ invoked' = <<>> /\ completed' = completed
             ELSE ts' = ts]_vars

\* in the second cycle the last endpoint is written 500 ms or more after the
\* cycle started, and its snapshot, edge row and sink line carry the ts of the
\* cycle, which is later than the observed_at of the first cycle's rows
C26_Witness ==
    /\ cycle = 2
    /\ pc = "record"
    /\ ENDPOINTS[idx] = "replacements"
    /\ now - ts[2] >= 500
    /\ db_writer # None
    /\ ~args.no_jsonl
    /\ LastSnapshot.observed_at = ts
    /\ replacement_events # <<>>
    /\ replacement_events[Len(replacement_events)].observed_at = ts
    /\ jsonl["replacements.jsonl"] # <<>>
    /\ jsonl["replacements.jsonl"][Len(jsonl["replacements.jsonl"])].observed_at = ts
    /\ api_snapshots[1].observed_at[2] < ts[2]

(***************************************************************************)
(* Sink lines and success snapshots                                        *)
(***************************************************************************)
\* the sink file of each endpoint
SinkFileOf ==
    [ mempool        |-> "mempool.jsonl",
      fees           |-> "fees.jsonl",
      fees_precise   |-> "fees_precise.jsonl",
      mempool_blocks |-> "mempool_blocks.jsonl",
      replacements   |-> "replacements.jsonl" ]

\* the snapshots of an endpoint with the given success flag
SnapshotsOf(name, flag) ==
    { k \in 1..Len(api_snapshots) :
        api_snapshots[k].endpoint = name /\ api_snapshots[k].success = flag }

\* the fetch of the endpoint failed in the cycle of the failure snapshot k:
\* no sink line and no edge row carries the observed_at of that cycle
NothingElseWritten(name, k) ==
    /\ \A j \in 1..Len(jsonl[SinkFileOf[name]]) :
          jsonl[SinkFileOf[name]][j].observed_at # api_snapshots[k].observed_at
    /\ name = "replacements" =>
          \A j \in 1..Len(replacement_events) :
              replacement_events[j].observed_at # api_snapshots[k].observed_at

(* C27: with the line sink and storage both on, at the end of every cycle
   the sink file of every endpoint has as many lines as the endpoint has
   success snapshots.  A failed fetch appends to no sink file and writes no
   edge row: the step that handles the failure leaves the files and
   replacement_events as they are, and for a failure snapshot there is no
   line of the endpoint and, for replacements, no edge row of that cycle. *)
C27_SinkLinesMatchSuccessSnapshots ==
    /\ []((~args.no_jsonl /\ db_writer # None) =>
            /\ CycleEnded =>
                  \A name \in Range(ENDPOINTS) :
                      Len(jsonl[SinkFileOf[name]]) = Cardinality(SnapshotsOf(name, 1))
            /\ \A name \in Range(ENDPOINTS) :
                  \A k \in SnapshotsOf(name, 0) : NothingElseWritten(name, k))
    /\ [][(pc = "fetch" /\ fres = "raised") =>
             /\ jsonl' = jsonl
             /\ replacement_events' = replacement_events]_vars

\* two cycles have ended with sink and storage on: the fetch of fees failed
\* once, its file has one line and one success snapshot, the file of mempool
\* has two lines
C27_Witness ==
    /\ pc = "summary"
    /\ cycle = 2
    /\ ~args.no_jsonl
    /\ db_writer # None
    /\ Cardinality(SnapshotsOf("fees", 0)) = 1
    /\ Cardinality(SnapshotsOf("fees", 1)) = 1
    /\ Len(jsonl["fees.jsonl"]) = 1
    /\ Len(jsonl["mempool.jsonl"]) = 2

\* every fetch made so far has succeeded
AllFetchesSucceeded ==
    \A t \in Range(TxidOrder) : lastFetch[t] # None => lastFetch[t][1].outcome = "success"

(* C28: repeated runs with a fixed --limit L > 0 and without --fetch-all,
   over an unchanged replacement_events and with every fetch succeeding, make
   progress while txids without a success row remain: when the r-th run has
   ended, r * L txids have a success row, or all of them if there are fewer,
   so that every txid gets its row in the end. *)
C28_LimitedRunsCoverAllTxids ==
    (pc = "tx_done" /\ args.limit > 0 /\ ~args.fetch_all /\ args.since = None
       /\ AllFetchesSucceeded) =>
        Cardinality(SuccessTxids)
            >= Min(runs * args.limit, Cardinality(DistinctTxids(AnyRow)))

(***************************************************************************)
(* Specification of the flattener alone                                    *)
(***************************************************************************)
InitFlat ==
    /\ node \in Trees
    /\ edges = <<>>
    /\ pc = "flatten"
    /\ args = DefaultArgs
    /\ fres = "idle"
    /\ faultsLeft = 0
    /\ InitLoop /\ InitFetcher /\ InitStorage

Flatten ==
    /\ pc = "flatten"
    /\ edges' = iter_replacement_edges(node)
    /\ pc' = "flattened"
    /\ UNCHANGED <<args, db_writer, ts, idx, cycle, now, attempt, start, fres, data,
                   latency_ms, exc, trace, sleeps, faultsLeft, queue, api_snapshots,
                   replacement_events, jsonl, metrics, invoked, summaries, completed, node,
                   storeVars>>

NextFlat == Flatten

SpecFlat == InitFlat /\ [][NextFlat]_vars

\* C9: iter_replacement_edges returns one edge per non-root node, the node as
\* old and its direct parent as new, in depth-first pre-order with children in
\* array order; a node without children (empty, null or absent replaces) yields
\* no edge.
C9_FlattenPreOrder ==
    pc = "flattened" =>
        /\ Len(edges) = Cardinality(NonRoot(node))
        /\ \A p \in NonRoot(node) :
              LET e == edges[Rank(node, p)]
              IN  /\ e.old_tx = NodeAt(node, p).tx
                  /\ e.new_tx = NodeAt(node, Front(p)).tx

\* the tree R[A[C], B] of the claim, flattened to three edges
C9_Witness ==
    /\ pc = "flattened"
    /\ Len(Kids(node)) = 2
    /\ Len(Kids(Kids(node)[1])) = 1
    /\ Len(Kids(Kids(node)[2])) = 0
    /\ node.tx # Kids(node)[1].tx
    /\ Kids(node)[1].tx # Kids(node)[2].tx
    /\ Len(edges) = 3

====
